---- MODULE Spec2Model ----
(***************************************************************************)
(* A model of mashumaro's code generator (CodeBuilder) and of the          *)
(* from_dict / to_dict routines it installs on a dataclass.                 *)
(*                                                                         *)
(* The generated source text is modelled as an expression tree; running    *)
(* the generated routine is modelled by an evaluator with Python's         *)
(* semantics over a small universe of values.                              *)
(***************************************************************************)
EXTENDS Integers, Sequences, FiniteSets, TLC

VARIABLES pc, call, res, builder, installed

vars == <<pc, call, res, builder, installed>>

---------------------------------------------------------------------------
(* Python values: every value is a record [t, v], t its runtime type.      *)

V(t, v) == [t |-> t, v |-> v]

None == V("none", 0)

\* dataclasses.MISSING, the sentinel d.get(..., MISSING) falls back to
MISSING == V("MISSING", 0)

VStr(s) == V("str", s)

VInt(i) == V("int", i)

VFloat(i) == V("float", i)

VBool(b) == V("bool", b)

VList(s) == V("list", s)

VDict(f) == V("dict", f)

EmptyDict == VDict([k \in {} |-> None])

\* an instance of dataclass c whose attributes are the function f
Obj(c, f) == V("obj", [cls |-> c, f |-> f])

---------------------------------------------------------------------------
(* Type descriptors: k the kind, n a class name, g whether the type is     *)
(* parametrized (is_generic), a its __args__.                              *)

Ty(k, n, g, a) == [k |-> k, n |-> n, g |-> g, a |-> a]

T0(k) == Ty(k, "", FALSE, <<>>)

NoType == T0("-")

TInt == T0("int")

TStr == T0("str")

TFloat == T0("float")

TBool == T0("bool")

TAny == T0("any")

TDataclass(c) == Ty("dataclass", c, FALSE, <<>>)

TEnum(e) == Ty("enum", e, FALSE, <<>>)

TPath(c) == Ty("pathlike", c, FALSE, <<>>)

\* typing.Optional[T] is Union[T, None]: __args__ == (T, NoneType)
TOptional(T) == Ty("union", "", TRUE, <<T, T0("nonetype")>>)

TGen(k, args) == Ty(k, "", TRUE, args)

\* a SerializationStrategy instance used as a field type, of class c
TStrategy(c) == Ty("strategy", c, FALSE, <<>>)

\* type_name(ftype.__class__) for a strategy, type_name(ftype) otherwise
FieldTypeName(ftype) ==
    IF ftype.k = "strategy" THEN Ty("class", ftype.n, FALSE, <<>>) ELSE ftype

---------------------------------------------------------------------------
(* Exceptions.  A raised exception is a value of type "raise"; its payload *)
(* holds the class of the exception and the attributes the mashumaro       *)
(* exceptions carry.  context is the class of the exception that was being *)
(* handled when this one was raised (__context__), "" when there is none.  *)

Exc(kind, fname, ftype, fvalue, holder, context) ==
    V("raise", [kind |-> kind, field_name |-> fname, field_type |-> ftype,
                field_value |-> fvalue, holder |-> holder,
                context |-> context])

Raise(kind) == Exc(kind, "", NoType, None, "", "")

IsRaise(r) == r.t = "raise"

KindOf(r) == r.v.kind

MissingField(fname, ftype, cls) ==
    Exc("MissingField", fname, ftype, None, cls, "")

InvalidFieldValue(fname, ftype, value, cls, caught) ==
    Exc("InvalidFieldValue", fname, ftype, value, cls, KindOf(caught))

\* ValueError('Argument for <cls>.from_dict method should be a dict instance')
ArgumentShapeError(cls) == Exc("ValueError", "", NoType, None, cls, "")

---------------------------------------------------------------------------
(* The record types of the model.  A class has a parent ("" for a direct   *)
(* subclass of DataClassDictMixin), its own __annotations__ in declaration *)
(* order, and its own namespace (cls.__dict__) as it is when the builder   *)
(* runs, before @dataclass processes the class.                            *)

\* a namespace entry that is a plain value: x: int = 5, or type = 3
NsRaw(v) == [kind |-> "raw", default |-> v, factory |-> MISSING,
             metadata |-> "NoField"]

\* a namespace entry that is a dataclasses.Field; factory is V("factory", x)
\* where x is the value the factory returns; metadata names the metadata
\* mapping's 'deserialize' entry ("absent" when the mapping has none)
NsField(default, factory, metadata) ==
    [kind |-> "field", default |-> default, factory |-> factory,
     metadata |-> metadata]

Factory(x) == V("factory", x)

Ann(name, ftype) == [name |-> name, type |-> ftype]

Class(parent, ann, ns) == [parent |-> parent, ann |-> ann, ns |-> ns]

NoNs == [n \in {} |-> NsRaw(None)]

TListInt == TGen("list", <<TInt>>)

\* records with defaults, a nested record and a subclass
PlainClasses ==
    [c \in {"Empty", "Inner", "Rec", "Sub"} |->
        CASE c = "Empty" -> Class("", <<>>, NoNs)
          [] c = "Inner" -> Class("", <<Ann("x", TInt)>>, NoNs)
          [] c = "Rec" ->
                Class("",
                      <<Ann("a", TInt), Ann("c", TDataclass("Inner")),
                        Ann("b", TStr), Ann("d", TOptional(TInt)),
                        Ann("e", TListInt)>>,
                      [n \in {"b", "d", "e"} |->
                          CASE n = "b" -> NsRaw(VStr("b"))
                            [] n = "d" -> NsRaw(None)
                            [] n = "e" ->
                                NsField(MISSING, Factory(VList(<<>>)),
                                        "absent")])
          [] c = "Sub" ->
                Class("Rec",
                      <<Ann("f", TInt), Ann("b", TStr)>>,
                      [n \in {"f", "b"} |->
                          CASE n = "f" -> NsRaw(VInt(7))
                            [] n = "b" ->
                                NsField(VStr("z"), MISSING, "absent")])]

\* records with the single field v, one per field type kind
BoxTypes ==
    [BoxInt |-> TInt,
     BoxStr |-> TStr,
     BoxFloat |-> TFloat,
     BoxBool |-> TBool,
     BoxOptional |-> TOptional(TInt),
     BoxList |-> TGen("list", <<TInt>>),
     BoxTuple |-> TGen("tuple", <<TInt>>),
     BoxDeque |-> TGen("deque", <<TInt>>),
     BoxSet |-> TGen("set", <<TInt>>),
     BoxFrozenSet |-> TGen("frozenset", <<TInt>>),
     BoxSequence |-> TGen("sequence", <<TInt>>),
     BoxDict |-> TGen("dict", <<TStr, TInt>>),
     BoxMapping |-> TGen("mapping", <<TStr, TInt>>),
     BoxChainMap |-> TGen("chainmap", <<TStr, TInt>>),
     BoxBytes |-> T0("bytes"),
     BoxByteArray |-> T0("bytearray"),
     BoxEnum |-> TEnum("Color"),
     BoxPath |-> TPath("PurePosixPath"),
     BoxDate |-> T0("date"),
     BoxTime |-> T0("time"),
     BoxDatetime |-> T0("datetime"),
     BoxTimedelta |-> T0("timedelta"),
     BoxTimezone |-> T0("timezone"),
     BoxUUID |-> T0("uuid"),
     BoxDecimal |-> T0("decimal"),
     BoxFraction |-> T0("fraction"),
     BoxRecord |-> TDataclass("Inner"),
     BoxListOfOptional |-> TGen("list", <<TOptional(TInt)>>),
     BoxOptionalList |-> TOptional(TGen("list", <<TInt>>)),
     BoxListOfRecord |-> TGen("list", <<TDataclass("Inner")>>),
     BoxDictOfOptional |-> TGen("dict", <<TStr, TOptional(TInt)>>),
     BoxDictByOptional |-> TGen("dict", <<TOptional(TStr), TInt>>)]

\* records with the single field v of a shape the builder does not support
ShapeTypes ==
    [ShapeTypeVar |-> T0("typevar"),
     ShapeAnyStr |-> T0("anystr"),
     ShapeUnion |-> Ty("union", "", TRUE, <<TInt, TStr>>),
     ShapeList |-> T0("list"),
     ShapeDeque |-> T0("deque"),
     ShapeTuple |-> T0("tuple"),
     ShapeSet |-> T0("set"),
     ShapeFrozenSet |-> T0("frozenset"),
     ShapeChainMap |-> T0("chainmap"),
     ShapeDict |-> T0("dict"),
     ShapeMapping |-> T0("mapping"),
     ShapeSequence |-> T0("sequence"),
     ShapeDictByRecord |-> TGen("dict", <<TDataclass("Inner"), TInt>>),
     ShapeMappingByRecord |-> TGen("mapping", <<TDataclass("Inner"), TInt>>),
     ShapeChainMapByRecord |->
         TGen("chainmap", <<TDataclass("Inner"), TInt>>),
     ShapeListOfTypeVar |-> TGen("list", <<T0("typevar")>>),
     ShapeListOfUnion |->
         TGen("list", <<Ty("union", "", TRUE, <<TInt, TStr>>)>>),
     ShapeOptionalList |-> TOptional(T0("list")),
     ShapeDictOfAnyStr |-> TGen("dict", <<TStr, T0("anystr")>>)]

\* single-field records whose field is declared as a field(...) carrying a
\* serialization_strategy: RoundedDecimal of types.py, which implements the
\* hooks SerializationStrategy declares, and a strategy that defines the
\* underscored names instead
StrategyTypes ==
    [BoxRounded |-> TStrategy("RoundedDecimal"),
     BoxLegacy |-> TStrategy("LegacyStrategy")]

\* the 'deserialize' entry of the metadata of the field descriptor of each
\* record below ("absent": a field(...) with no such entry), and the kind
\* of its field v
StampMetadata ==
    [StampDate |-> <<"date", "absent">>,
     StampTime |-> <<"time", "absent">>,
     StampDatetime |-> <<"datetime", "absent">>,
     StampCiso |-> <<"date", "ciso8601">>,
     StampPendulum |-> <<"datetime", "pendulum">>,
     StampFunction |-> <<"date", "function">>,
     StampUnknown |-> <<"date", "unknown">>]

\* records whose field v: date (time, datetime) = field(metadata=...)
StampClasses ==
    [c \in DOMAIN StampMetadata |->
        Class("", <<Ann("v", T0(StampMetadata[c][1]))>>,
              [n \in {"v"} |->
                  NsField(MISSING, MISSING, StampMetadata[c][2])])]

\* chains of records that declare the field x again: DefA gives it a
\* default, DefB annotates it again with no value, DefC adds nothing to
\* DefB, DefD gives another default, DefE a default factory, DefF a
\* field() with neither, DefG adds nothing to DefF
ChainClasses ==
    [DefA |-> Class("", <<Ann("x", TInt)>>, [n \in {"x"} |-> NsRaw(VInt(1))]),
     DefB |-> Class("DefA", <<Ann("x", TInt)>>, NoNs),
     DefC |-> Class("DefB", <<>>, NoNs),
     DefD |-> Class("DefA", <<Ann("x", TInt)>>,
                    [n \in {"x"} |-> NsRaw(VInt(2))]),
     DefE |-> Class("DefD", <<Ann("x", TInt)>>,
                    [n \in {"x"} |->
                        NsField(MISSING, Factory(VInt(0)), "absent")]),
     DefF |-> Class("DefA", <<Ann("x", TInt)>>,
                    [n \in {"x"} |-> NsField(MISSING, MISSING, "absent")]),
     DefG |-> Class("DefF", <<>>, NoNs)]

SingleFieldClasses(types) ==
    [c \in DOMAIN types |-> Class("", <<Ann("v", types[c])>>, NoNs)]

TagOnly(tag) == [n \in {"type"} |-> NsRaw(tag)]

(* The class trees of the discriminator tests.  type: Literal["str_1"] =    *)
(* "str_1" is held as a str field whose default is the literal; the        *)
(* untyped type = 3 of Foo3 is a namespace entry and no field.             *)
VariantClasses ==
    [BaseVariant |-> Class("", <<>>, NoNs),
     VariantStr1 |->
         Class("BaseVariant", <<Ann("x", TStr), Ann("type", TStr)>>,
               TagOnly(VStr("str_1"))),
     VariantDate1 |->
         Class("BaseVariant", <<Ann("x", T0("date")), Ann("type", TStr)>>,
               TagOnly(VStr("date_1"))),
     VariantStr12 |->
         Class("VariantStr1", <<Ann("x", TStr), Ann("type", TStr)>>,
               TagOnly(VStr("str_12"))),
     VariantDate12 |->
         Class("VariantStr1", <<Ann("x", T0("date")), Ann("type", TStr)>>,
               TagOnly(VStr("date_12"))),
     VariantStr21 |->
         Class("VariantDate1", <<Ann("x", TStr), Ann("type", TStr)>>,
               TagOnly(VStr("str_21"))),
     VariantDate22 |->
         Class("VariantDate1", <<Ann("x", T0("date")), Ann("type", TStr)>>,
               TagOnly(VStr("date_22"))),
     Foo1 |-> Class("", <<Ann("x1", TInt)>>, NoNs),
     Foo2 |-> Class("Foo1", <<Ann("x2", TInt)>>, NoNs),
     Foo3 |-> Class("Foo2", <<Ann("x", TInt)>>, TagOnly(VInt(3))),
     Foo4 |-> Class("Foo2", <<Ann("x", TInt)>>, TagOnly(VInt(4))),
     BaseVariantWitCustomTagger |-> Class("", <<>>, NoNs),
     VariantWitCustomTaggerSub1 |->
         Class("BaseVariantWitCustomTagger", <<>>, NoNs),
     VariantWitCustomTaggerSub2 |->
         Class("BaseVariantWitCustomTagger", <<>>, NoNs)]

\* the classes of the trees in the order they are declared
ClassOrder ==
    <<"BaseVariant", "VariantStr1", "VariantDate1", "VariantStr12",
      "VariantDate12", "VariantStr21", "VariantDate22", "Foo1", "Foo2",
      "Foo3", "Foo4", "BaseVariantWitCustomTagger",
      "VariantWitCustomTaggerSub1", "VariantWitCustomTaggerSub2">>

Classes ==
    PlainClasses @@ SingleFieldClasses(BoxTypes)
                 @@ SingleFieldClasses(ShapeTypes)
                 @@ SingleFieldClasses(StrategyTypes)
                 @@ StampClasses
                 @@ ChainClasses
                 @@ VariantClasses

ClassNames == DOMAIN Classes

\* cls.__mro__ restricted to the model's classes, most derived first
RECURSIVE Mro(_)
Mro(c) ==
    IF Classes[c].parent = "" THEN <<c>> ELSE <<c>> \o Mro(Classes[c].parent)

Reverse(s) == [i \in 1..Len(s) |-> s[Len(s) + 1 - i]]

IndexOf(names, n) == CHOOSE i \in 1..Len(names) : names[i] = n

NamesOf(anns) == [i \in 1..Len(anns) |-> anns[i].name]

InSeq(x, s) == \E i \in 1..Len(s) : s[i] = x

\* dict.update on an insertion-ordered dict: a known key keeps its place
\* and takes the new value, a new key is appended
RECURSIVE UpdateHints(_, _)
UpdateHints(hints, own) ==
    IF own = <<>> THEN hints
    ELSE LET h == Head(own)
             upd == IF InSeq(h.name, NamesOf(hints))
                    THEN [hints EXCEPT ![IndexOf(NamesOf(hints), h.name)] = h]
                    ELSE Append(hints, h)
         IN UpdateHints(upd, Tail(own))

\* typing.get_type_hints(cls): the annotations of reversed(cls.__mro__)
RECURSIVE GetTypeHintsFrom(_)
GetTypeHintsFrom(mro) ==
    IF mro = <<>> THEN <<>>
    ELSE UpdateHints(GetTypeHintsFrom(Tail(mro)), Classes[Head(mro)].ann)

GetTypeHints(c) == GetTypeHintsFrom(Mro(c))

IsClassVar(ftype) == ftype.k = "classvar"

IsInitVar(ftype) == ftype.k = "initvar"

Annotations(c) == Classes[c].ann

\* CodeBuilder.__get_field_types
GetFieldTypes(c, recursive) ==
    LET keep(h) == /\ ~(IsClassVar(h.type) \/ IsInitVar(h.type))
                   /\ (recursive \/ InSeq(h.name, NamesOf(Annotations(c))))
    IN SelectSeq(GetTypeHints(c), keep)

\* CodeBuilder.field_types
FieldTypes(c) == GetFieldTypes(c, TRUE)

FieldNames(c) == NamesOf(FieldTypes(c))

Namespace(c) == Classes[c].ns

\* self.namespace.get(name, MISSING)
NsGet(c, name) ==
    IF name \in DOMAIN Namespace(c) THEN Namespace(c)[name]
    ELSE NsRaw(MISSING)

(* What @dataclass leaves as the class attribute `name` of class c, looked  *)
(* up through the MRO: a plain default stays, a Field with a default is     *)
(* replaced by that default, a Field without one is deleted.                *)
RECURSIVE ProcessedAttr(_, _)
ProcessedAttr(c, name) ==
    IF name \in DOMAIN Namespace(c) /\ NsGet(c, name).default # MISSING
    THEN NsGet(c, name).default
    ELSE IF Classes[c].parent = "" THEN MISSING
    ELSE ProcessedAttr(Classes[c].parent, name)

\* f overridden by g: dict.update
Override(f, g) ==
    [n \in (DOMAIN f) \cup (DOMAIN g) |-> IF n \in DOMAIN g THEN g[n] ELSE f[n]]

SetOfSeq(s) == {s[i] : i \in 1..Len(s)}

\* getattr(cls, name, MISSING) as @dataclass reads it for an own annotation
\* of c: the own namespace, then what the bases' processing left behind
InheritedAttr(c, name) ==
    IF Classes[c].parent = "" THEN MISSING
    ELSE ProcessedAttr(Classes[c].parent, name)

DcFieldOf(e, inherited, own) ==
    IF own THEN [default |-> e.default, factory |-> e.factory]
    ELSE [default |-> inherited, factory |-> MISSING]

\* the dataclasses.Field @dataclass derives for an own annotation of c
OwnDcField(c, name) ==
    DcFieldOf(NsGet(c, name), InheritedAttr(c, name),
              name \in DOMAIN Namespace(c))

OwnDcFields(c) ==
    [n \in SetOfSeq(NamesOf(Annotations(c))) |-> OwnDcField(c, n)]

NoFields == [n \in {} |-> DcFieldOf(NsRaw(MISSING), MISSING, TRUE)]

\* getattr(c, _FIELDS): the parent's fields, then the own annotations
RECURSIVE DcFields(_)
DcFields(c) ==
    Override(IF Classes[c].parent = "" THEN NoFields
             ELSE DcFields(Classes[c].parent),
             OwnDcFields(c))

\* field.default if it is not MISSING, field.default_factory otherwise
FieldDefault(f) == IF f.default # MISSING THEN f.default ELSE f.factory

DefaultsOfFields(fields) == [n \in DOMAIN fields |-> FieldDefault(fields[n])]

\* the loop over self.cls.__mro__[-1:0:-1]: oldest ancestor first, the class
\* itself left out; a later ancestor overrides an earlier one
RECURSIVE AncestorDefaults(_)
AncestorDefaults(mro) ==
    IF mro = <<>> THEN [n \in {} |-> MISSING]
    ELSE Override(AncestorDefaults(Tail(mro)),
                  DefaultsOfFields(DcFields(Head(mro))))

\* the entry the second loop of defaults stores for an own annotation
OwnDefault(field) ==
    IF field.kind = "field" THEN FieldDefault(field) ELSE field.default

OwnDefaults(c) ==
    [n \in SetOfSeq(NamesOf(GetFieldTypes(c, FALSE))) |->
        OwnDefault(NsGet(c, n))]

\* CodeBuilder.defaults
Defaults(c) == Override(AncestorDefaults(Tail(Mro(c))), OwnDefaults(c))

MetadataOfField(field, own) ==
    IF own /\ field.kind = "field" THEN field.metadata ELSE "NoMetadata"

\* CodeBuilder.metadatas, .get(fname): "NoMetadata" stands for None
MetadataOf(c, fname) ==
    MetadataOfField(NsGet(c, fname),
                    InSeq(fname, NamesOf(GetFieldTypes(c, FALSE))))

---------------------------------------------------------------------------
(* The Dispatch Engine.  _pack_value and _unpack_field_value return the    *)
(* source text of an expression; the model returns its syntax tree:        *)
(*   e  the form of the expression                                         *)
(*   n  the name of the variable it reads (value_name)                     *)
(*   c  the type it names, p a further name (a parser, a hook)             *)
(*   x  its sub-expressions                                                *)
(* or the exception the builder raises instead.                            *)

X(e, n, c, p, x) == [e |-> e, n |-> n, c |-> c, p |-> p, x |-> x]

Var(n) == X("var", n, NoType, "", <<>>)

\* an exception raised while the class is built
CErr(kind, fname, ftype, parent, msg) ==
    [e |-> "raise", kind |-> kind, field_name |-> fname,
     field_type |-> ftype, holder |-> parent, msg |-> msg]

IsCErr(r) == r.e = "raise"

\* UnserializableDataError(msg): the message is all it carries
UnserializableDataError(msg) ==
    CErr("UnserializableDataError", "", NoType, "", msg)

UnserializableField(fname, ftype, parent, msg) ==
    CErr("UnserializableField", fname, ftype, parent, msg)

IsDataclass(ftype) == ftype.k = "dataclass"

IsSpecialTypingPrimitive(ftype) ==
    ftype.k \in {"any", "union", "anystr", "typevar", "special"}

IsCollection(ftype) ==
    ftype.k \in {"list", "deque", "tuple", "set", "frozenset", "abstractset",
                 "chainmap", "dict", "mapping", "bytes", "bytearray",
                 "bytestring", "str", "sequence", "collection"}

IsGeneric(ftype) == ftype.g

\* len(args) == 2 and args[1] == NoneType
IsOptionalArgs(args) == Len(args) = 2 /\ args[2] = T0("nonetype")

BareHint(ftype) ==
    CASE ftype.k = "list" -> "Use typing.List[T] instead"
      [] ftype.k = "deque" -> "Use typing.Deque[T] instead"
      [] ftype.k = "tuple" -> "Use typing.Tuple[T] instead"
      [] ftype.k = "set" -> "Use typing.Set[T] instead"
      [] ftype.k = "frozenset" -> "Use typing.FrozenSet[T] instead"
      [] ftype.k = "chainmap" -> "Use typing.ChainMap[KT,VT] instead"
      [] ftype.k = "dict" ->
            "Use typing.Dict[KT,VT] or Mapping[KT,VT] instead"
      [] OTHER -> ""

\* the branch of the special typing primitives, the same in both directions
SpecialPrimitive(ftype, optional, value_name) ==
    CASE ftype.k = "any" -> Var(value_name)
      [] ftype.k = "union" ->
            IF IsOptionalArgs(ftype.a) THEN optional
            ELSE UnserializableDataError(
                     "Unions are not supported by mashumaro")
      [] ftype.k = "anystr" ->
            UnserializableDataError("AnyStr is not supported by mashumaro")
      [] ftype.k = "typevar" ->
            UnserializableDataError("TypeVars are not supported by mashumaro")
      [] OTHER ->
            UnserializableDataError(
                "as a field type is not supported by mashumaro")

\* [<inner> for value in <value_name>]
ListComp(inner, value_name) ==
    IF IsCErr(inner) THEN inner
    ELSE X("listcomp", value_name, NoType, "", <<inner>>)

\* {<k>: <v> for key, value in <value_name>.items()}
DictComp(k, v, value_name) ==
    IF IsCErr(k) THEN k
    ELSE IF IsCErr(v) THEN v
    ELSE X("dictcomp", value_name, NoType, "", <<k, v>>)

\* ctor([<inner> for value in <value_name>])
Wrapped(ctor, inner, value_name) ==
    IF IsCErr(inner) THEN inner
    ELSE X("construct", "", NoType, ctor, <<ListComp(inner, value_name)>>)

\* [{<k>: <v> for key, value in m.items()} for m in value.maps]
ChainMapPack(k, v) ==
    IF IsCErr(k) THEN k
    ELSE IF IsCErr(v) THEN v
    ELSE X("chainmap_pack", "value", NoType, "", <<DictComp(k, v, "m")>>)

\* collections.ChainMap(
\*     *[{<k>: <v> for key, value in m.items()} for m in <value_name>])
ChainMapUnpack(k, v, value_name) ==
    IF IsCErr(k) THEN k
    ELSE IF IsCErr(v) THEN v
    ELSE X("chainmap_unpack", value_name, NoType, "",
           <<DictComp(k, v, "m")>>)

RECURSIVE PackValue(_, _, _, _)
PackValue(fname, ftype, parent, value_name) ==
    LET args == ftype.a
        inner_expr(arg_num, v_name) ==
            PackValue(fname, args[arg_num + 1], parent, v_name)
        fallthrough == UnserializableField(fname, ftype, parent, "")
        bare == UnserializableField(fname, ftype, parent, BareHint(ftype))
    IN
    CASE IsDataclass(ftype) -> X("to_dict", value_name, NoType, "", <<>>)
      [] ftype.k = "serializable" ->
            X("method", value_name, NoType, "_serialize", <<>>)
      [] ftype.k = "strategy" ->
            X("strategy", value_name, ftype, "_serialize", <<>>)
      [] IsSpecialTypingPrimitive(ftype) ->
            SpecialPrimitive(ftype,
                             PackValue(fname, args[1], parent, "value"),
                             value_name)
      [] ftype.k \in {"list", "deque", "tuple", "set", "frozenset",
                      "abstractset"} ->
            IF IsGeneric(ftype) THEN ListComp(inner_expr(0, "value"),
                                              value_name)
            ELSE IF ftype.k # "abstractset" THEN bare
            ELSE fallthrough
      [] ftype.k = "chainmap" ->
            IF ~IsGeneric(ftype) THEN bare
            ELSE IF IsDataclass(args[1])
            THEN UnserializableDataError(
                     "ChainMaps with dataclasses as keys are not supported")
            ELSE ChainMapPack(inner_expr(0, "key"), inner_expr(1, "value"))
      [] ftype.k \in {"dict", "mapping"} ->
            IF ~IsGeneric(ftype)
            THEN (IF ftype.k = "dict" THEN bare ELSE fallthrough)
            ELSE IF IsDataclass(args[1])
            THEN UnserializableDataError(
                     "Mappings with dataclasses as keys are not supported")
            ELSE DictComp(inner_expr(0, "key"), inner_expr(1, "value"),
                          value_name)
      [] ftype.k \in {"bytes", "bytearray", "bytestring"} ->
            X("pack_bytes", value_name, NoType, "", <<>>)
      [] ftype.k = "str" -> Var(value_name)
      [] ftype.k = "sequence" ->
            IF IsGeneric(ftype) THEN ListComp(inner_expr(0, "value"),
                                              value_name)
            ELSE fallthrough
      [] ftype.k = "collection" -> fallthrough
      [] ftype.k = "pathlike" ->
            X("method", value_name, NoType, "__fspath__", <<>>)
      [] ftype.k = "enum" -> X("pack_enum", value_name, NoType, "", <<>>)
      [] ftype.k = "int" -> X("call", value_name, NoType, "int", <<>>)
      [] ftype.k = "float" -> X("call", value_name, NoType, "float", <<>>)
      [] ftype.k \in {"bool", "nonetype"} -> Var(value_name)
      [] ftype.k \in {"datetime", "date", "time"} ->
            X("pack_datetime", value_name, NoType, "", <<>>)
      [] ftype.k = "timedelta" ->
            X("method", value_name, NoType, "total_seconds", <<>>)
      [] ftype.k = "timezone" ->
            X("method", value_name, NoType, "tzname", <<>>)
      [] ftype.k \in {"uuid", "decimal", "fraction"} ->
            X("call", value_name, NoType, "str", <<>>)
      [] OTHER -> fallthrough

\* the constructor _unpack_field_value picks for an os.PathLike type
PathConstructor(ftype) ==
    CASE ftype.n = "PosixPath" -> "pathlib.PosixPath"
      [] ftype.n = "WindowsPath" -> "pathlib.WindowsPath"
      [] ftype.n = "Path" -> "pathlib.Path"
      [] ftype.n = "PurePosixPath" -> "pathlib.PurePosixPath"
      [] ftype.n = "PureWindowsPath" -> "pathlib.PureWindowsPath"
      [] ftype.n = "PurePath" -> "pathlib.PurePath"
      [] ftype.n = "PathLike" -> "pathlib.PurePath"
      [] OTHER -> ftype.n

\* the method call appended to a parser's result: "", ".date()", ".time()"
Suffix(s) == X("suffix", "", NoType, s, <<>>)

\* the date, time and datetime branch of _unpack_field_value
UnpackDatetime(fname, ftype, parent, value_name, metadata) ==
    LET deserialize == metadata
        datetime_parser ==
            CASE deserialize = "ciso8601" -> "ciso8601.parse_datetime"
              [] deserialize = "pendulum" -> "pendulum.parse"
              [] deserialize = "function" -> "module.function"
              [] OTHER -> ""
        suffix == IF deserialize = "function" THEN ""
                  ELSE IF ftype.k = "date" THEN ".date()"
                  ELSE IF ftype.k = "time" THEN ".time()"
                  ELSE ""
    IN IF metadata # "NoMetadata"
       THEN IF deserialize = "callable_instance"
            THEN UnserializableField(fname, ftype, parent,
                     "Using callable class instances isn't supported yet")
            ELSE IF datetime_parser = ""
            THEN UnserializableField(fname, ftype, parent,
                     "Unsupported field metadata deserialize option value")
            ELSE X("unpack_datetime", value_name, ftype,
                   datetime_parser, <<Suffix(suffix)>>)
       ELSE X("unpack_datetime", value_name, ftype, "fromisoformat",
              <<Suffix("")>>)

RECURSIVE UnpackFieldValue(_, _, _, _, _)
UnpackFieldValue(fname, ftype, parent, value_name, metadata) ==
    LET args == ftype.a
        inner_expr(arg_num, v_name) ==
            UnpackFieldValue(fname, args[arg_num + 1], parent, v_name,
                             "NoMetadata")
        fallthrough == UnserializableField(fname, ftype, parent, "")
        bare == UnserializableField(fname, ftype, parent, BareHint(ftype))
        listlike(ctor) ==
            IF IsGeneric(ftype)
            THEN (IF ctor = "list"
                  THEN ListComp(inner_expr(0, "value"), value_name)
                  ELSE Wrapped(ctor, inner_expr(0, "value"), value_name))
            ELSE bare
    IN
    CASE IsDataclass(ftype) -> X("from_dict", value_name, ftype, "", <<>>)
      [] ftype.k = "serializable" ->
            X("classmethod", value_name, ftype, "_deserialize", <<>>)
      [] ftype.k = "strategy" ->
            X("strategy", value_name, ftype, "_deserialize", <<>>)
      [] IsSpecialTypingPrimitive(ftype) ->
            SpecialPrimitive(ftype,
                             UnpackFieldValue(fname, args[1], parent,
                                              "value", "NoMetadata"),
                             value_name)
      [] ftype.k = "list" -> listlike("list")
      [] ftype.k = "deque" -> listlike("collections.deque")
      [] ftype.k = "tuple" -> listlike("tuple")
      [] ftype.k = "frozenset" -> listlike("frozenset")
      [] ftype.k \in {"set", "abstractset"} ->
            IF IsGeneric(ftype) \/ ftype.k = "set" THEN listlike("set")
            ELSE fallthrough
      [] ftype.k = "chainmap" ->
            IF ~IsGeneric(ftype) THEN bare
            ELSE IF IsDataclass(args[1])
            THEN UnserializableDataError(
                     "ChainMaps with dataclasses as keys are not supported")
            ELSE ChainMapUnpack(inner_expr(0, "key"),
                                inner_expr(1, "value"), value_name)
      [] ftype.k \in {"dict", "mapping"} ->
            IF ~IsGeneric(ftype)
            THEN (IF ftype.k = "dict" THEN bare ELSE fallthrough)
            ELSE IF IsDataclass(args[1])
            THEN UnserializableDataError(
                     "Mappings with dataclasses as keys are not supported")
            ELSE DictComp(inner_expr(0, "key"), inner_expr(1, "value"),
                          value_name)
      [] ftype.k = "bytes" -> X("unpack_bytes", value_name, NoType, "", <<>>)
      [] ftype.k = "bytearray" ->
            X("construct", "", NoType, "bytearray",
              <<X("unpack_bytes", value_name, NoType, "", <<>>)>>)
      [] ftype.k = "bytestring" -> fallthrough
      [] ftype.k = "str" -> Var(value_name)
      [] ftype.k = "sequence" ->
            IF IsGeneric(ftype) THEN ListComp(inner_expr(0, "value"),
                                              value_name)
            ELSE fallthrough
      [] ftype.k = "collection" -> fallthrough
      [] ftype.k = "pathlike" ->
            X("call", value_name, ftype, PathConstructor(ftype), <<>>)
      [] ftype.k = "enum" -> X("unpack_enum", value_name, ftype, "", <<>>)
      [] ftype.k = "int" -> X("call", value_name, NoType, "int", <<>>)
      [] ftype.k = "float" -> X("call", value_name, NoType, "float", <<>>)
      [] ftype.k \in {"bool", "nonetype"} -> Var(value_name)
      [] ftype.k \in {"datetime", "date", "time"} ->
            UnpackDatetime(fname, ftype, parent, value_name, metadata)
      [] ftype.k = "timedelta" ->
            X("call", value_name, NoType, "datetime.timedelta", <<>>)
      [] ftype.k = "timezone" ->
            X("call", value_name, NoType, "parse_timezone", <<>>)
      [] ftype.k = "uuid" -> X("call", value_name, NoType, "uuid.UUID", <<>>)
      [] ftype.k = "decimal" -> X("call", value_name, NoType, "Decimal", <<>>)
      [] ftype.k = "fraction" ->
            X("call", value_name, NoType, "Fraction", <<>>)
      [] OTHER -> fallthrough

---------------------------------------------------------------------------
(* The Python operations the generated expressions call, over the model's  *)
(* values.  A text form and the object it denotes are different values:    *)
(* a conversion maps one to the other or raises.                           *)

VBytes(s) == V("bytes", s)

VBytearray(s) == V("bytearray", s)

VTuple(s) == V("tuple", s)

VDeque(s) == V("deque", s)

VSet(S) == V("set", S)

VFrozenset(S) == V("frozenset", S)

VChainMap(maps) == V("chainmap", maps)

EnumMember(e, name) == V("enum", [cls |-> e, name |-> name])

Path(c, s) == V("path", [cls |-> c, s |-> s])

VDate(s) == V("date", s)

VTime(s) == V("time", s)

VDatetime(s) == V("datetime", s)

VTimedelta(n) == V("timedelta", n)

VTimezone(s) == V("timezone", s)

VUUID(s) == V("uuid", s)

VDecimal(s) == V("decimal", s)

VFraction(s) == V("fraction", s)

\* an instance of the SerializableType subclass c
Serializable(c, s) == V("serializable", [cls |-> c, s |-> s])

Opts(b, e, d) == [use_bytes |-> b, use_enum |-> e, use_datetime |-> d]

IntTexts == {"0", "1", "2"}

IntOfText(s) == CASE s = "0" -> 0 [] s = "1" -> 1 [] s = "2" -> 2

TextOfInt(i) ==
    CASE i = 0 -> "0" [] i = 1 -> "1" [] i = 2 -> "2" [] OTHER -> "<int>"

\* int(v)
PyInt(v) ==
    CASE v.t = "int" -> v
      [] v.t = "float" -> VInt(v.v)
      [] v.t = "bool" -> VInt(IF v.v THEN 1 ELSE 0)
      [] v.t = "str" ->
            IF v.v \in IntTexts THEN VInt(IntOfText(v.v))
            ELSE Raise("ValueError")
      [] OTHER -> Raise("TypeError")

\* float(v)
PyFloat(v) ==
    CASE v.t = "int" -> VFloat(v.v)
      [] v.t = "float" -> v
      [] v.t = "bool" -> VFloat(IF v.v THEN 1 ELSE 0)
      [] v.t = "str" ->
            IF v.v \in IntTexts THEN VFloat(IntOfText(v.v))
            ELSE Raise("ValueError")
      [] OTHER -> Raise("TypeError")

\* str(v): the text of a UUID, Decimal or Fraction is its payload
PyStr(v) ==
    CASE v.t = "str" -> v
      [] v.t \in {"uuid", "decimal", "fraction"} -> VStr(v.v)
      [] v.t = "int" -> VStr(TextOfInt(v.v))
      [] OTHER -> VStr("<repr>")

UUIDTexts == {"3c25dd74-f208-46a2-9606-dd3919e975b7"}

\* uuid.UUID(v): UUID.__init__ calls hex.replace on its argument
PyUUID(v) ==
    IF v.t # "str" THEN Raise("AttributeError")
    ELSE IF v.v \in UUIDTexts THEN VUUID(v.v)
    ELSE Raise("ValueError")

DecimalTexts == {"1.5"} \cup IntTexts

\* decimal.Decimal(v)
PyDecimal(v) ==
    CASE v.t = "str" ->
            IF v.v \in DecimalTexts THEN VDecimal(v.v)
            ELSE Raise("InvalidOperation")
      [] v.t = "int" -> VDecimal(TextOfInt(v.v))
      [] v.t = "decimal" -> v
      [] OTHER -> Raise("TypeError")

FractionTexts == {"1/2"} \cup IntTexts

\* fractions.Fraction(v)
PyFraction(v) ==
    CASE v.t = "str" ->
            IF v.v \in FractionTexts THEN VFraction(v.v)
            ELSE IF v.v = "1.5" THEN VFraction("3/2")
            ELSE Raise("ValueError")
      [] v.t = "int" -> VFraction(TextOfInt(v.v))
      [] v.t = "fraction" -> v
      [] OTHER -> Raise("TypeError")

\* datetime.timedelta(seconds=v)
PyTimedelta(v) ==
    CASE v.t \in {"int", "float"} -> VTimedelta(v.v)
      [] v.t = "bool" -> VTimedelta(IF v.v THEN 1 ELSE 0)
      [] OTHER -> Raise("TypeError")

DateTexts == {"2023-05-30"}

TimeTexts == {"12:00:00"}

DatetimeTexts == {"2023-05-30T12:00:00"}

\* datetime.<kind>.fromisoformat(v)
FromIsoFormat(kind, v) ==
    IF v.t # "str" THEN Raise("TypeError")
    ELSE CASE kind = "date" /\ v.v \in DateTexts -> VDate(v.v)
           [] kind = "time" /\ v.v \in TimeTexts -> VTime(v.v)
           [] kind = "datetime" /\ v.v \in DatetimeTexts -> VDatetime(v.v)
           [] kind = "datetime" /\ v.v \in DateTexts ->
                 VDatetime("2023-05-30T00:00:00")
           [] OTHER -> Raise("ValueError")

\* v.isoformat()
IsoFormat(v) ==
    IF v.t \in {"date", "time", "datetime"} THEN VStr(v.v)
    ELSE Raise("AttributeError")

\* a third-party parser (ciso8601.parse_datetime, pendulum.parse) followed
\* by the generated .date() or .time(), or a user's function
ParseWith(parser, suffix, kind, v) ==
    IF v.t # "str" THEN Raise("TypeError")
    ELSE IF parser = "module.function"
    THEN FromIsoFormat(kind, v)
    ELSE CASE suffix = ".date()" /\ v.v \in DateTexts -> VDate(v.v)
           [] suffix = ".time()" /\ v.v \in DatetimeTexts -> VTime("12:00:00")
           [] suffix = "" /\ v.v \in DatetimeTexts -> VDatetime(v.v)
           [] OTHER -> Raise("ValueError")

TimezoneTexts == {"UTC", "UTC+03:00"}

\* base64.encodebytes(v).decode()
EncodeBytes(v) ==
    IF v.t \in {"bytes", "bytearray"}
    THEN VStr(CASE v.v = "hi" -> "aGk=" [] v.v = "" -> "" [] OTHER -> "AAA=")
    ELSE Raise("TypeError")

\* base64.decodebytes(v.encode()); binascii.Error is a ValueError
DecodeBytes(v) ==
    IF v.t # "str" THEN Raise("AttributeError")
    ELSE CASE v.v = "aGk=" -> VBytes("hi")
           [] v.v = "" -> VBytes("")
           [] v.v = "AAA=" -> VBytes("<zeros>")
           [] OTHER -> Raise("binascii.Error")

\* bytearray(v)
PyBytearray(v) ==
    CASE v.t \in {"bytes", "bytearray"} -> VBytearray(v.v)
      [] v.t = "int" -> VBytearray("<zeros>")
      [] OTHER -> Raise("TypeError")

\* the members of the model's enumerations and their values
EnumValues ==
    [e \in {"Color"} |->
        [m \in {"RED", "ONE"} |-> IF m = "RED" THEN VStr("a") ELSE VInt(1)]]

\* v.value
EnumValue(v) ==
    IF v.t = "enum" THEN EnumValues[v.v.cls][v.v.name]
    ELSE Raise("AttributeError")

\* E(v): the member whose value is v
EnumLookup(e, v) ==
    IF v.t = "enum" /\ v.v.cls = e THEN v
    ELSE IF \E m \in DOMAIN EnumValues[e] : EnumValues[e][m] = v
    THEN EnumMember(e, CHOOSE m \in DOMAIN EnumValues[e] :
                           EnumValues[e][m] = v)
    ELSE Raise("ValueError")

\* the class pathlib instantiates for a constructor, on a POSIX system
PathClassOf(ctor) ==
    CASE ctor \in {"pathlib.Path", "pathlib.PosixPath"} -> "PosixPath"
      [] ctor \in {"pathlib.PurePath", "pathlib.PurePosixPath"} ->
            "PurePosixPath"
      [] ctor = "pathlib.PureWindowsPath" -> "PureWindowsPath"
      [] OTHER -> ctor

\* pathlib.<ctor>(v)
PyPath(ctor, v) ==
    IF ctor = "pathlib.WindowsPath" THEN Raise("NotImplementedError")
    ELSE CASE v.t = "str" -> Path(PathClassOf(ctor), v.v)
           [] v.t = "path" -> Path(PathClassOf(ctor), v.v.s)
           [] OTHER -> Raise("TypeError")

\* hash(v) succeeds
Hashable(v) ==
    v.t \notin {"list", "dict", "set", "deque", "bytearray", "chainmap",
                "obj"}

\* some enumeration of a set: the iteration order of a set or of dict keys
SeqOfSet(S) ==
    IF S = {} THEN <<>>
    ELSE CHOOSE s \in [1..Cardinality(S) -> S] :
             \A x \in S : \E i \in 1..Cardinality(S) : s[i] = x

\* iter(v) as a sequence; a one-character str yields itself
Iterate(v) ==
    CASE v.t \in {"list", "tuple", "deque"} -> VList(v.v)
      [] v.t \in {"set", "frozenset"} -> VList(SeqOfSet(v.v))
      [] v.t = "dict" -> VList(SeqOfSet(DOMAIN v.v))
      [] v.t = "str" -> VList(IF v.v = "" THEN <<>> ELSE <<v>>)
      [] OTHER -> Raise("TypeError")

\* ctor(list)
PyConstruct(ctor, v) ==
    IF ctor = "bytearray" THEN PyBytearray(v)
    ELSE IF Iterate(v).t = "raise" THEN Iterate(v)
    ELSE LET s == Iterate(v).v
             elems == {s[i] : i \in 1..Len(s)}
         IN CASE ctor = "tuple" -> VTuple(s)
              [] ctor = "collections.deque" -> VDeque(s)
              [] ctor \in {"set", "frozenset"} ->
                    IF \A x \in elems : Hashable(x)
                    THEN V(ctor, elems)
                    ELSE Raise("TypeError")

\* the first raised exception of a sequence of results, in order
FirstRaise(rs) ==
    rs[CHOOSE i \in 1..Len(rs) :
           /\ IsRaise(rs[i])
           /\ \A j \in 1..(i - 1) : ~IsRaise(rs[j])]

AnyRaise(rs) == \E i \in 1..Len(rs) : IsRaise(rs[i])

\* the hooks a class defines, for the SerializationStrategy classes and the
\* SerializableType classes of the model
Hooks ==
    [c \in {"RoundedDecimal", "LegacyStrategy", "Token"} |->
        CASE c = "RoundedDecimal" -> {"serialize", "deserialize"}
          [] c = "LegacyStrategy" -> {"_serialize", "_deserialize"}
          [] c = "Token" -> {"_serialize", "_deserialize"}]

\* RoundedDecimal.serialize and .deserialize with places=None; the legacy
\* strategy does the same under the older hook names
StrategyHook(hook, v) ==
    IF hook \in {"serialize", "_serialize"}
    THEN PyStr(v)
    ELSE PyDecimal(PyStr(v))

\* <strategy>.<hook>(v): the attribute lookup, then the call
CallStrategy(c, hook, v) ==
    IF hook \notin Hooks[c] THEN Raise("AttributeError")
    ELSE StrategyHook(hook, v)

\* parse_timezone(v): the timezone whose name is v
ParseTimezone(v) ==
    IF v.t # "str" THEN Raise("TypeError")
    ELSE IF v.v \in TimezoneTexts THEN VTimezone(v.v)
    ELSE Raise("ValueError")

---------------------------------------------------------------------------
(* Running generated code.  env binds the variables an expression reads:   *)
(* value, key and m (the loop variables), and the flags of the call.       *)

Env(value, opts) == [value |-> value, key |-> None, m |-> None, opts |-> opts]

Lookup(env, n) ==
    CASE n = "value" -> env.value
      [] n = "key" -> env.key
      [] n = "m" -> env.m

\* f(<v>) for the functions the generated expressions call
PyCall(fn, v) ==
    CASE fn = "int" -> PyInt(v)
      [] fn = "float" -> PyFloat(v)
      [] fn = "str" -> PyStr(v)
      [] fn = "uuid.UUID" -> PyUUID(v)
      [] fn = "Decimal" -> PyDecimal(v)
      [] fn = "Fraction" -> PyFraction(v)
      [] fn = "datetime.timedelta" -> PyTimedelta(v)
      [] fn = "parse_timezone" -> ParseTimezone(v)
      [] OTHER -> PyPath(fn, v)

\* <v>.<method>() for the methods the generated expressions call
PyMethod(method, v) ==
    CASE method = "__fspath__" /\ v.t = "path" -> VStr(v.v.s)
      [] method = "total_seconds" /\ v.t = "timedelta" -> VFloat(v.v)
      [] method = "tzname" /\ v.t = "timezone" -> VStr(v.v)
      [] method = "_serialize" /\ v.t = "serializable" -> VStr(v.v.s)
      [] OTHER -> Raise("AttributeError")

\* <cls>._deserialize(<v>) of a SerializableType subclass of the model
PyClassMethod(c, v) ==
    IF v.t = "str" THEN Serializable(c, v.v) ELSE Raise("ValueError")

(* What runs is a task: a generated expression in an environment, or a    *)
(* generated from_dict or to_dict routine with its argument in env.value.  *)
Task(k, expr, cls, env) == [k |-> k, expr |-> expr, cls |-> cls, env |-> env]

EvalTask(expr, env) == Task("eval", expr, "", env)

\* a task that computes nothing
Idle(opts) == EvalTask(Var("value"), Env(None, opts))

\* one evaluation of <inner> per element: for value in <it>
ElementTasks(inner, env, it) ==
    IF IsRaise(it) THEN <<>>
    ELSE [i \in 1..Len(it.v) |->
             EvalTask(inner, [env EXCEPT !.value = it.v[i]])]

\* one evaluation of the inner dict comprehension per map: for m in <it>
MapTasks(inner, env, it) ==
    IF IsRaise(it) THEN <<>>
    ELSE [i \in 1..Len(it.v) |->
             EvalTask(inner, [env EXCEPT !.m = it.v[i]])]

\* for key, value in <d>.items(): the key expression is evaluated before
\* the value expression
ItemTasks(k, v, env, d, keys) ==
    [j \in 1..(2 * Len(keys)) |->
        IF j % 2 = 1
        THEN EvalTask(k, [env EXCEPT !.key = keys[(j + 1) \div 2],
                                     !.value = d.v[keys[(j + 1) \div 2]]])
        ELSE EvalTask(v, [env EXCEPT !.key = keys[j \div 2],
                                     !.value = d.v[keys[j \div 2]]])]

\* the dict a comprehension builds from its (key, value) results: a later
\* item replaces an earlier one with an equal key
DictOfPairs(rs, n) ==
    IF AnyRaise(rs) THEN FirstRaise(rs)
    ELSE IF \E i \in 1..n : ~Hashable(rs[2 * i - 1]) THEN Raise("TypeError")
    ELSE VDict([nk \in {rs[2 * i - 1] : i \in 1..n} |->
                  rs[2 * (CHOOSE i \in 1..n :
                              /\ rs[2 * i - 1] = nk
                              /\ \A j \in (i + 1)..n : rs[2 * j - 1] # nk)]])

\* the list a comprehension builds from its results
Collect(rs) == IF AnyRaise(rs) THEN FirstRaise(rs) ELSE VList(rs)

\* collections.ChainMap(*maps)
ChainOf(maps) ==
    IF IsRaise(maps) THEN maps
    ELSE IF maps.v = <<>> THEN VChainMap(<<EmptyDict>>)
    ELSE VChainMap(maps.v)

---------------------------------------------------------------------------
(* The Code Assembler: add_from_dict and add_to_dict build the routines,   *)
(* Run runs what they built.                                               *)

FirstCErr(plans) ==
    plans[CHOOSE i \in 1..Len(plans) :
              /\ IsCErr(plans[i].expr)
              /\ \A j \in 1..(i - 1) : ~IsCErr(plans[j].expr)].expr

\* the routine the emitted lines compile to, or the exception the first
\* field that cannot be handled raises while they are emitted
Compiled(e, plans) ==
    IF \E i \in 1..Len(plans) : IsCErr(plans[i].expr)
    THEN FirstCErr(plans)
    ELSE [e |-> e, fields |-> plans]

\* the lines add_from_dict emits for one field
FromDictField(cls, h) ==
    [fname |-> h.name,
     ftype |-> h.type,
     required |-> Defaults(cls)[h.name] = MISSING,
     expr |-> UnpackFieldValue(h.name, h.type, cls, "value",
                               MetadataOf(cls, h.name))]

\* CodeBuilder.add_from_dict: the generated from_dict, or the exception
\* the builder raises
AddFromDict(cls) ==
    Compiled("from_dict",
             [i \in 1..Len(FieldTypes(cls)) |->
                 FromDictField(cls, FieldTypes(cls)[i])])

\* the lines add_to_dict emits for one field
ToDictField(cls, h) ==
    [fname |-> h.name,
     ftype |-> h.type,
     expr |-> PackValue(h.name, h.type, cls, "value")]

\* CodeBuilder.add_to_dict
AddToDict(cls) ==
    Compiled("to_dict",
             [i \in 1..Len(FieldTypes(cls)) |->
                 ToDictField(cls, FieldTypes(cls)[i])])

\* d.get(fname, MISSING)
DGet(d, fname) ==
    CASE d.t = "dict" ->
            IF VStr(fname) \in DOMAIN d.v THEN d.v[VStr(fname)] ELSE MISSING
      [] OTHER -> Raise("AttributeError")

\* isinstance(d, dict)
IsDictInstance(d) == d.t = "dict"

NoKwargs == [n \in {} |-> None]

Bind(kwargs, name, v) ==
    [n \in (DOMAIN kwargs) \cup {name} |->
        IF n = name THEN v ELSE kwargs[n]]

\* the dataclass-generated __init__: cls(**kwargs)
DataclassInit(cls, fields, kwargs) ==
    IF \/ \E n \in DOMAIN fields : /\ n \notin DOMAIN kwargs
                                   /\ fields[n].default = MISSING
                                   /\ fields[n].factory = MISSING
       \/ ~((DOMAIN kwargs) \subseteq (DOMAIN fields))
    THEN Raise("TypeError")
    ELSE Obj(cls, [n \in DOMAIN fields |->
                      IF n \in DOMAIN kwargs THEN kwargs[n]
                      ELSE IF fields[n].default # MISSING
                      THEN fields[n].default
                      ELSE fields[n].factory.v])

Construct(cls, kwargs) == DataclassInit(cls, DcFields(cls), kwargs)

\* the call cls.from_dict(d, ...) as a task
FromDictTask(cls, d, opts) ==
    Task("from_dict", AddFromDict(cls), cls, Env(d, opts))

\* the call self.to_dict(...) as a task
ToDictTask(self, opts) ==
    Task("to_dict", AddToDict(self.v.cls), self.v.cls, Env(self, opts))

\* the evaluations an expression needs before its own: v is the value its
\* variable is bound to
ExprTasks(expr, env, v) ==
    CASE expr.e = "listcomp" -> ElementTasks(expr.x[1], env, Iterate(v))
      [] expr.e = "dictcomp" ->
            IF v.t # "dict" THEN <<>>
            ELSE ItemTasks(expr.x[1], expr.x[2], env, v,
                           SeqOfSet(DOMAIN v.v))
      [] expr.e = "chainmap_pack" ->
            IF v.t # "chainmap" THEN <<>>
            ELSE MapTasks(expr.x[1], env, VList(v.v))
      [] expr.e = "chainmap_unpack" -> MapTasks(expr.x[1], env, Iterate(v))
      [] expr.e = "construct" -> <<EvalTask(expr.x[1], env)>>
      [] expr.e = "to_dict" ->
            IF v.t # "obj" THEN <<>>
            ELSE <<ToDictTask(v, env.opts)>>
      [] expr.e = "from_dict" ->
            <<FromDictTask(expr.c.n, v, env.opts)>>
      [] OTHER -> <<>>

\* the value of an expression, rs being the results of ExprTasks
EvalWith(expr, opts, v, rs) ==
    CASE expr.e = "var" -> v
      [] expr.e = "call" -> PyCall(expr.p, v)
      [] expr.e = "method" -> PyMethod(expr.p, v)
      [] expr.e = "classmethod" -> PyClassMethod(expr.c.n, v)
      [] expr.e = "strategy" -> CallStrategy(expr.c.n, expr.p, v)
      [] expr.e = "to_dict" ->
            IF v.t = "obj" THEN rs[1].result ELSE Raise("AttributeError")
      [] expr.e = "from_dict" -> rs[1].result
      [] expr.e = "listcomp" ->
            IF IsRaise(Iterate(v)) THEN Iterate(v) ELSE Collect(rs)
      [] expr.e = "dictcomp" ->
            IF v.t # "dict" THEN Raise("AttributeError")
            ELSE DictOfPairs(rs, Len(rs) \div 2)
      [] expr.e = "chainmap_pack" ->
            IF v.t # "chainmap" THEN Raise("AttributeError")
            ELSE Collect(rs)
      [] expr.e = "chainmap_unpack" ->
            IF IsRaise(Iterate(v)) THEN Iterate(v) ELSE ChainOf(Collect(rs))
      [] expr.e = "construct" ->
            IF IsRaise(rs[1]) THEN rs[1] ELSE PyConstruct(expr.p, rs[1])
      [] expr.e = "pack_bytes" ->
            IF opts.use_bytes THEN v ELSE EncodeBytes(v)
      [] expr.e = "unpack_bytes" ->
            IF opts.use_bytes THEN v ELSE DecodeBytes(v)
      [] expr.e = "pack_enum" ->
            IF opts.use_enum THEN v ELSE EnumValue(v)
      [] expr.e = "unpack_enum" ->
            IF opts.use_enum THEN v ELSE EnumLookup(expr.c.n, v)
      [] expr.e = "pack_datetime" ->
            IF opts.use_datetime THEN v ELSE IsoFormat(v)
      [] expr.e = "unpack_datetime" ->
            IF opts.use_datetime THEN v
            ELSE IF expr.p = "fromisoformat"
            THEN FromIsoFormat(expr.c.k, v)
            ELSE ParseWith(expr.p, expr.x[1].p, expr.c.k, v)

\* the right-hand side of kwargs[fname] = <expr> for the value d.get found,
\* where the generated code reaches it
DecodeTask(p, value, opts) ==
    IF IsRaise(value) \/ value = None \/ value = MISSING THEN Idle(opts)
    ELSE EvalTask(p.expr, Env(value, opts))

\* a to_dict that applies the encode expression to a null too, which C7
\* must tell apart
EncodeTaskOfNull(p, value, opts) == EvalTask(p.expr, Env(value, opts))

\* the right-hand side of kwargs[fname] = <expr> for a field of self
EncodeTask(p, value, opts) ==
    IF value = None THEN Idle(opts) ELSE EvalTask(p.expr, Env(value, opts))

\* the evaluations a task needs before its own
SubTasks(task) ==
    CASE task.k = "eval" ->
            ExprTasks(task.expr, task.env, Lookup(task.env, task.expr.n))
      [] task.k = "from_dict" ->
            [i \in 1..Len(task.expr.fields) |->
                DecodeTask(task.expr.fields[i],
                           DGet(task.env.value, task.expr.fields[i].fname),
                           task.env.opts)]
      [] task.k = "to_dict" ->
            [i \in 1..Len(task.expr.fields) |->
                EncodeTask(task.expr.fields[i],
                           task.env.value.v.f[task.expr.fields[i].fname],
                           task.env.opts)]

\* a field decode without the except clause, which C2 must tell apart
DecodeFieldUnguarded(cls, p, value, r) == r

\* try: kwargs[fname] = <expr>  except Exception: raise InvalidFieldValue
DecodeField(cls, p, value, r) ==
    IF IsRaise(r)
    THEN InvalidFieldValue(p.fname, FieldTypeName(p.ftype), value, cls, r)
    ELSE r

Step(exc, bound, v) == [exc |-> exc, bound |-> bound, v |-> v]

\* the statements of one field without the raise of MissingField, which
\* C1 must tell apart
FromDictStepLenient(cls, p, value, r) ==
    IF IsRaise(value) THEN Step(value, FALSE, None)
    ELSE IF value = None THEN Step(None, TRUE, None)
    ELSE IF value = MISSING THEN Step(None, FALSE, None)
    ELSE IF IsRaise(r) THEN Step(DecodeField(cls, p, value, r), FALSE, None)
    ELSE Step(None, TRUE, r)

\* the generated statements of one field: what they bind, or raise; r is
\* the value of the field's expression
FromDictStep(cls, p, value, r) ==
    IF IsRaise(value) THEN Step(value, FALSE, None)
    ELSE IF value = None THEN Step(None, TRUE, None)
    ELSE IF value = MISSING
    THEN (IF p.required
          THEN Step(MissingField(p.fname, FieldTypeName(p.ftype), cls),
                    FALSE, None)
          ELSE Step(None, FALSE, None))
    ELSE IF IsRaise(r) THEN Step(DecodeField(cls, p, value, r), FALSE, None)
    ELSE Step(None, TRUE, r)

Body(exc, kwargs, trace) == [exc |-> exc, kwargs |-> kwargs, trace |-> trace]

\* a try block that goes on to the next field after a failure, which C4
\* must tell apart
FromDictAdvancePastFailure(acc, fname, s) ==
    Body(None,
         IF s.bound THEN Bind(acc.kwargs, fname, s.v) ELSE acc.kwargs,
         Append(acc.trace, fname))

\* the state of the try block after the statements of one field
FromDictAdvance(acc, fname, s) ==
    Body(s.exc,
         IF s.bound THEN Bind(acc.kwargs, fname, s.v) ELSE acc.kwargs,
         Append(acc.trace, fname))

\* the body of the generated try block, field after field; trace lists the
\* fields whose statements have run
RECURSIVE FromDictLoop(_, _, _, _, _, _)
FromDictLoop(cls, plans, d, rs, i, acc) ==
    IF i > Len(plans) \/ acc.exc # None THEN acc
    ELSE FromDictLoop(cls, plans, d, rs, i + 1,
             FromDictAdvance(acc, plans[i].fname,
                 FromDictStep(cls, plans[i], DGet(d, plans[i].fname),
                              rs[i])))

\* except AttributeError: a non-dict argument gets the ValueError, any
\* other AttributeError is raised again
OuterExcept(cls, d, exc) ==
    IF KindOf(exc) = "AttributeError" /\ ~IsDictInstance(d)
    THEN ArgumentShapeError(cls)
    ELSE exc

\* what a generated routine leaves behind: result is what it returns or
\* raises; kwargs, trace and constructed record how from_dict got there,
\* items the (key, value) pairs of to_dict's kwargs in insertion order
Outcome(result, kwargs, trace, constructed, items) ==
    [result |-> result, kwargs |-> kwargs, trace |-> trace,
     constructed |-> constructed, items |-> items]

\* return cls(**kwargs) once the try block is through
FromDictReturn(cls, d, body) ==
    Outcome(IF body.exc # None THEN OuterExcept(cls, d, body.exc)
            ELSE Construct(cls, body.kwargs),
            body.kwargs, body.trace, body.exc = None, <<>>)

\* the generated statements of to_dict, field after field: kwargs as
\* (key, value) pairs in insertion order
RECURSIVE ToDictLoop(_, _, _, _)
ToDictLoop(plans, rs, i, items) ==
    IF i > Len(plans) THEN VList(items)
    ELSE IF IsRaise(rs[i]) THEN rs[i]
    ELSE ToDictLoop(plans, rs, i + 1,
                    Append(items, <<plans[i].fname, rs[i]>>))

DictOfItems(items) ==
    VDict([k \in {VStr(items[i][1]) : i \in 1..Len(items)} |->
             items[CHOOSE i \in 1..Len(items) : VStr(items[i][1]) = k][2]])

\* return kwargs
ToDictReturn(items) ==
    Outcome(IF IsRaise(items) THEN items ELSE DictOfItems(items.v),
            NoKwargs, <<>>, FALSE,
            IF IsRaise(items) THEN <<>> ELSE items.v)

\* what a task yields, rs being the results of SubTasks
Finish(task, rs) ==
    CASE task.k = "eval" ->
            EvalWith(task.expr, task.env.opts,
                     Lookup(task.env, task.expr.n), rs)
      [] task.k = "from_dict" ->
            FromDictReturn(task.cls, task.env.value,
                FromDictLoop(task.cls, task.expr.fields, task.env.value,
                             rs, 1, Body(None, NoKwargs, <<>>)))
      [] task.k = "to_dict" ->
            ToDictReturn(ToDictLoop(task.expr.fields, rs, 1, <<>>))

RECURSIVE Run(_)

\* a task once the evaluations it needs are known
RunWith(task, subtasks) ==
    Finish(task, [i \in 1..Len(subtasks) |-> Run(subtasks[i])])

Run(task) == RunWith(task, SubTasks(task))

\* the generated from_dict(cls, d, use_bytes, use_enum, use_datetime)
FromDictRun(cls, d, opts) == Run(FromDictTask(cls, d, opts))

\* the generated to_dict(self, use_bytes, use_enum, use_datetime)
ToDictRun(self, opts) == Run(ToDictTask(self, opts))

\* evaluation of one generated expression with value bound
Eval(expr, env) == Run(EvalTask(expr, env))

Built == [e |-> "built"]

FirstFailure(a, b) == IF IsCErr(a) THEN a ELSE IF IsCErr(b) THEN b ELSE Built

\* the class is set up: both routines are built, from_dict first
BuildClass(cls) == FirstFailure(AddFromDict(cls), AddToDict(cls))

\* the place of the first field that cannot be handled, 0 when every field
\* can
FirstFailing(plans) ==
    IF \E i \in 1..Len(plans) : IsCErr(plans[i].expr)
    THEN CHOOSE i \in 1..Len(plans) :
             /\ IsCErr(plans[i].expr)
             /\ \A j \in 1..(i - 1) : ~IsCErr(plans[j].expr)
    ELSE 0

\* what add_from_dict and add_to_dict make of the fields' lines: the two
\* routines, and where each of them stopped
RoutinesOf(unpackers, packers) ==
    [from_dict |-> Compiled("from_dict", unpackers),
     to_dict |-> Compiled("to_dict", packers),
     from_dict_stop |-> FirstFailing(unpackers),
     to_dict_stop |-> FirstFailing(packers)]

\* CodeBuilder(cls).add_from_dict() and .add_to_dict()
Routines(cls) ==
    RoutinesOf([i \in 1..Len(FieldTypes(cls)) |->
                   FromDictField(cls, FieldTypes(cls)[i])],
               [i \in 1..Len(FieldTypes(cls)) |->
                   ToDictField(cls, FieldTypes(cls)[i])])
---------------------------------------------------------------------------
(* The CodeBuilder object: the lines it has emitted, the modules it has    *)
(* registered and the names it has declared global.  A module name is the  *)
(* sequence of its dotted parts; a line is its indentation level, its kind *)
(* and the name it mentions.                                               *)

\* get_imported_module_names() when mashumaro is imported: the modules
\* metaprogramming.py itself imports, among others
INITIAL_MODULES ==
    {<<"builtins">>, <<"collections">>, <<"collections", "abc">>,
     <<"datetime">>, <<"enum">>, <<"os">>, <<"pathlib">>, <<"typing">>,
     <<"uuid">>, <<"decimal">>, <<"fractions">>}

Line(indent, kind, arg) == [indent |-> indent, kind |-> kind, arg |-> arg]

\* CodeBuilder.__init__
NewBuilder == [lines |-> <<>>, modules |-> {}, globals |-> {}, indent |-> 0]

\* CodeBuilder.reset
Reset(b) ==
    [lines |-> <<>>, modules |-> INITIAL_MODULES, globals |-> {},
     indent |-> 0]

\* CodeBuilder.add_line
AddLine(b, kind, arg) ==
    [b EXCEPT !.lines = Append(@, Line(b.indent, kind, arg))]

\* with self.indent(): entering, and leaving (self._current_indent[:-4])
Indent(b) == [b EXCEPT !.indent = @ + 1]

Dedent(b) == [b EXCEPT !.indent = IF @ = 0 THEN 0 ELSE @ - 1]

\* the import block of one call: if '<module>' not in globals(): import
ImportBlock(b, module) ==
    <<Line(b.indent, "if", module), Line(b.indent + 1, "import", module)>>

\* else: global <root_module>
GlobalBlock(b, module) ==
    <<Line(b.indent, "else", module),
      Line(b.indent + 1, "global", <<module[1]>>)>>

\* a registration without the test for a module already registered, which
\* C20 must tell apart
EnsureModuleImportedAgain(b, module) ==
    [b EXCEPT !.modules = @ \cup {module},
              !.lines = @ \o ImportBlock(b, module)]

\* CodeBuilder.ensure_module_imported; module[1] is module.split(".")[0]
EnsureModuleImported(b, module) ==
    IF module \in b.modules THEN b
    ELSE IF module[1] \in b.globals
    THEN [b EXCEPT !.modules = @ \cup {module},
                   !.lines = @ \o ImportBlock(b, module)]
    ELSE [b EXCEPT !.modules = @ \cup {module},
                   !.globals = @ \cup {module[1]},
                   !.lines = @ \o ImportBlock(b, module)
                               \o GlobalBlock(b, module)]

\* the module that defines the record types, enums and strategies of the
\* model, loaded after mashumaro
UserModule == <<"entities">>

\* getattr(t, "__module__", None); every type of the model has one
ModuleOf(t) ==
    CASE t.k \in {"dataclass", "enum", "strategy", "serializable", "class"}
             -> UserModule
      [] t.g \/ t.k \in {"any", "union", "anystr", "typevar", "special"}
             -> <<"typing">>
      [] t.k \in {"datetime", "date", "time", "timedelta", "timezone"}
             -> <<"datetime">>
      [] t.k = "uuid" -> <<"uuid">>
      [] t.k = "decimal" -> <<"decimal">>
      [] t.k = "fraction" -> <<"fractions">>
      [] t.k = "pathlike" -> <<"pathlib">>
      [] OTHER -> <<"builtins">>

\* CodeBuilder._add_type_modules: each type, then its __args__, then the
\* next type
RECURSIVE AddTypeModules(_, _)
AddTypeModules(b, types) ==
    IF types = <<>> THEN b
    ELSE AddTypeModules(EnsureModuleImported(b, ModuleOf(Head(types))),
                        Head(types).a \o Tail(types))

\* the module _unpack_field_value registers for the parser a field's
\* metadata names
ParserModule(ftype, metadata) ==
    IF ftype.k \in {"datetime", "date", "time"}
    THEN CASE metadata = "ciso8601" -> <<"ciso8601">>
           [] metadata = "pendulum" -> <<"pendulum">>
           [] metadata = "function" -> <<"module">>
           [] OTHER -> <<>>
    ELSE <<>>

EnsureParser(b, module) ==
    IF module = <<>> THEN b ELSE EnsureModuleImported(b, module)

\* the lines of one field in from_dict: the imports of its type, the import
\* of its parser, then its statements (the line "field", whose meaning is
\* FromDictField)
FromDictFieldLines(b, cls, h) ==
    AddLine(EnsureParser(AddTypeModules(b, <<h.type>>),
                         ParserModule(h.type, MetadataOf(cls, h.name))),
            "field", <<h.name>>)

\* the lines of the fields up to the field at stop, whose expression
\* raises once its modules are registered (0: no field raises)
RECURSIVE FromDictFieldsLines(_, _, _, _, _)
FromDictFieldsLines(b, cls, hints, i, stop) ==
    IF i > Len(hints) THEN b
    ELSE IF i = stop
    THEN EnsureParser(AddTypeModules(b, <<hints[i].type>>),
                      ParserModule(hints[i].type,
                                   MetadataOf(cls, hints[i].name)))
    ELSE FromDictFieldsLines(FromDictFieldLines(b, cls, hints[i]), cls,
                             hints, i + 1, stop)

\* the lines add_from_dict has emitted when the field at stop raises
FromDictLinesFailed(b, cls, stop) ==
    FromDictFieldsLines(
        AddLine(Indent(AddLine(Indent(
            AddLine(AddLine(Reset(b), "code", <<"@classmethod">>),
                    "code", <<"def from_dict">>)),
            "code", <<"try:">>)), "code", <<"kwargs = {}">>),
        cls, FieldTypes(cls), 1, stop)

\* the builder after add_from_dict has emitted its lines
FromDictLines(b, cls) ==
    AddLine(Dedent(AddLine(AddLine(Dedent(
        FromDictFieldsLines(
            AddLine(Indent(AddLine(Indent(
                AddLine(AddLine(Reset(b), "code", <<"@classmethod">>),
                        "code", <<"def from_dict">>)),
                "code", <<"try:">>)), "code", <<"kwargs = {}">>),
            cls, FieldTypes(cls), 1, 0)),
        "code", <<"except AttributeError:">>),
        "code", <<"return cls(**kwargs)">>)),
        "code", <<"setattr(cls, 'from_dict', from_dict)">>)

RECURSIVE ToDictFieldsLines(_, _, _, _, _)
ToDictFieldsLines(b, cls, hints, i, stop) ==
    IF i > Len(hints) \/ i = stop THEN b
    ELSE ToDictFieldsLines(AddLine(b, "field", <<hints[i].name>>), cls,
                           hints, i + 1, stop)

\* the lines add_to_dict has emitted when the field at stop raises
ToDictLinesFailed(b, cls, stop) ==
    ToDictFieldsLines(
        AddLine(Indent(AddLine(Reset(b), "code", <<"def to_dict">>)),
                "code", <<"kwargs = {}">>),
        cls, FieldTypes(cls), 1, stop)

\* the builder after add_to_dict has emitted its lines
ToDictLines(b, cls) ==
    AddLine(Dedent(AddLine(
        ToDictFieldsLines(
            AddLine(Indent(AddLine(Reset(b), "code", <<"def to_dict">>)),
                    "code", <<"kwargs = {}">>),
            cls, FieldTypes(cls), 1, 0),
        "code", <<"return kwargs">>)),
        "code", <<"setattr(cls, 'to_dict', to_dict)">>)

\* the routines installed on the classes: no class has any
NoRoutines == [c \in {} |-> 0]

\* CodeBuilder.compile of the lines of add_from_dict and add_to_dict:
\* exec runs the def statements and setattr(cls, ...) of both
InstallOf(routines, cls, r) ==
    [c \in (DOMAIN routines) \cup {cls} |->
        IF c = cls
        THEN [from_dict |-> r.from_dict, to_dict |-> r.to_dict]
        ELSE routines[c]]

Install(routines, cls) == InstallOf(routines, cls, Routines(cls))

\* the builder once add_from_dict and add_to_dict have run for cls with
\* the outcome r, or once the first of them has raised
BuilderWith(b, cls, r) ==
    IF r.from_dict_stop # 0
    THEN FromDictLinesFailed(b, cls, r.from_dict_stop)
    ELSE IF r.to_dict_stop # 0
    THEN ToDictLinesFailed(FromDictLines(b, cls), cls, r.to_dict_stop)
    ELSE ToDictLines(FromDictLines(b, cls), cls)

BuilderAfter(b, cls) == BuilderWith(b, cls, Routines(cls))

\* the routines once the class has been set up: nothing is installed by
\* an add_from_dict or add_to_dict that raises
InstalledWith(routines, cls, r) ==
    IF r.from_dict_stop # 0 \/ r.to_dict_stop # 0 THEN routines
    ELSE InstallOf(routines, cls, r)

InstalledAfter(routines, cls) == InstalledWith(routines, cls, Routines(cls))

\* a routine that sets the class up again when it is called, which C15
\* must tell apart
BuilderRebuiltByCall(b, cls) == BuilderAfter(NewBuilder, cls)

\* the builder after a call of an installed routine: the emitted lines of
\* from_dict and to_dict name no builder
BuilderAfterCall(b, cls) == b

\* cls.from_dict and self.to_dict: the attributes setattr has installed
FromDictOf(routines, cls) == routines[cls].from_dict

ToDictOf(routines, cls) == routines[cls].to_dict

---------------------------------------------------------------------------
(* Dialects: a table from a type kind to the hooks that replace the        *)
(* default expressions of that kind.                                       *)

\* OrjsonDialect.serialization_strategy: pass_through for "serialize" only
OrjsonDialect ==
    [k \in {"datetime", "date", "time", "uuid"} |-> {"serialize"}]

\* __mashumaro_builder_params of DataClassORJSONMixin: the dialect of the
\* packer and of the unpacker
OrjsonBuilderParams ==
    [packer |-> [format_name |-> "jsonb", dialect |-> OrjsonDialect],
     unpacker |-> [format_name |-> "json", dialect |-> OrjsonDialect]]

\* the dialect names the hook for the kind of ftype
Overridden(dialect, ftype, hook) ==
    ftype.k \in DOMAIN dialect /\ hook \in dialect[ftype.k]

\* the expression of a field under a dialect: pass_through(value) is value
UnderDialect(dialect, ftype, hook, expr) ==
    IF Overridden(dialect, ftype, hook) THEN Var("value") ELSE expr

\* the packer of a format: to_dict built under the packer's dialect
AddPacker(cls, params) ==
    Compiled("to_dict",
             [i \in 1..Len(FieldTypes(cls)) |->
                 [ToDictField(cls, FieldTypes(cls)[i]) EXCEPT
                     !.expr = UnderDialect(params.packer.dialect,
                                           FieldTypes(cls)[i].type,
                                           "serialize", @)]])

\* the unpacker of a format: from_dict built under the unpacker's dialect
AddUnpacker(cls, params) ==
    Compiled("from_dict",
             [i \in 1..Len(FieldTypes(cls)) |->
                 [FromDictField(cls, FieldTypes(cls)[i]) EXCEPT
                     !.expr = UnderDialect(params.unpacker.dialect,
                                           FieldTypes(cls)[i].type,
                                           "deserialize", @)]])
---------------------------------------------------------------------------
(* The Discriminator Resolver: decoding a value declared as the base type  *)
(* B under a discriminator.                                                *)

\* Discriminator(field, include_subtypes, include_supertypes,
\*               variant_tagger_fn): field "" is no field, tagger "" is no
\* variant_tagger_fn, "lower" is lambda cls: cls.__name__.lower()
Disc(field, include_subtypes, include_supertypes, tagger) ==
    [field |-> field, include_subtypes |-> include_subtypes,
     include_supertypes |-> include_supertypes, tagger |-> tagger]

NoDisc == Disc("", FALSE, FALSE, "")

\* cls.__subclasses__(): the direct subclasses in declaration order
Subclasses(c) ==
    SelectSeq(ClassOrder, LAMBDA x : Classes[x].parent = c)

\* every class of todo followed by its own subclass tree, before the next
RECURSIVE SubclassWalk(_)
SubclassWalk(todo) ==
    IF todo = <<>> THEN <<>>
    ELSE <<Head(todo)>> \o
         SubclassWalk(Subclasses(Head(todo)) \o Tail(todo))

\* a walk that stops at the direct subclasses, which C9 must tell apart
DirectSubclasses(c) == Subclasses(c)

\* the place of w[i] once w is ordered by the length of the base chain,
\* longest first, classes of one length keeping their order
DeepestRank(w, i) ==
    1 + Cardinality({j \in 1..Len(w) :
                        \/ Len(Mro(w[j])) > Len(Mro(w[i]))
                        \/ Len(Mro(w[j])) = Len(Mro(w[i])) /\ j < i})

DeepestFirst(w) ==
    [k \in 1..Len(w) |-> w[CHOOSE i \in 1..Len(w) : DeepestRank(w, i) = k]]

\* the descendant tree with the deepest classes ahead of their parents,
\* which C11 must tell apart
DescendantsDeepestFirst(c) == DeepestFirst(SubclassWalk(Subclasses(c)))

\* the full descendant tree of c: each class, then its subclasses
Descendants(c) == SubclassWalk(Subclasses(c))

\* candidates with the declared type ahead of its subtypes, which C10 must
\* tell apart
CandidatesBaseFirst(B, disc) ==
    (IF disc.include_supertypes THEN <<B>> ELSE <<>>) \o
    (IF disc.include_subtypes THEN Descendants(B) ELSE <<>>)

\* the classes a value declared as B may be decoded as, in the order they
\* are considered: the subtypes, then the declared type itself
Candidates(B, disc) ==
    (IF disc.include_subtypes THEN Descendants(B) ELSE <<>>) \o
    (IF disc.include_supertypes THEN <<B>> ELSE <<>>)

LowerNames ==
    [BaseVariant |-> "basevariant",
     VariantStr1 |-> "variantstr1",
     VariantDate1 |-> "variantdate1",
     VariantStr12 |-> "variantstr12",
     VariantDate12 |-> "variantdate12",
     VariantStr21 |-> "variantstr21",
     VariantDate22 |-> "variantdate22",
     Foo1 |-> "foo1",
     Foo2 |-> "foo2",
     Foo3 |-> "foo3",
     Foo4 |-> "foo4",
     BaseVariantWitCustomTagger |-> "basevariantwitcustomtagger",
     VariantWitCustomTaggerSub1 |-> "variantwitcustomtaggersub1",
     VariantWitCustomTaggerSub2 |-> "variantwitcustomtaggersub2"]

NoTag == V("notag", 0)

\* the tag of a class: variant_tagger_fn(cls) when a tagger is given, the
\* value the class itself assigns to the tag field otherwise
TagOf(c, disc) ==
    IF disc.tagger = "lower" THEN VStr(LowerNames[c])
    ELSE IF disc.field \in DOMAIN Namespace(c)
    THEN Namespace(c)[disc.field].default
    ELSE NoTag

\* the class the tag map holds for a tag, "" when it holds none
LookupTag(cands, disc, tag) ==
    IF tag # NoTag /\ \E i \in 1..Len(cands) : TagOf(cands[i], disc) = tag
    THEN cands[CHOOSE i \in 1..Len(cands) :
                   /\ TagOf(cands[i], disc) = tag
                   /\ \A j \in 1..(i - 1) : TagOf(cands[j], disc) # tag]
    ELSE ""

\* the classes whose type field is declared Literal[...]
LiteralClasses ==
    {"VariantStr1", "VariantDate1", "VariantStr12", "VariantDate12",
     "VariantStr21", "VariantDate22"}

LiteralFields(c) == IF c \in LiteralClasses THEN {"type"} ELSE {}

\* a decode that takes any value for a Literal field, which C13 must tell
\* apart
LiteralUnchecked(c, d) == FALSE

LiteralMismatch(c, d) ==
    \E n \in LiteralFields(c) :
        /\ VStr(n) \in DOMAIN d.v
        /\ d.v[VStr(n)] # Namespace(c)[n].default

\* the candidate's own from_dict: a Literal field takes its literal only
VariantFromDict(c, d, opts) ==
    IF IsDictInstance(d) /\ LiteralMismatch(c, d)
    THEN Exc("InvalidFieldValue", "type", TStr, d.v[VStr("type")], c,
             "ValueError")
    ELSE FromDictRun(c, d, opts).result

\* the raw value of the tag field in the input
TagIn(d, field) ==
    IF IsDictInstance(d) /\ VStr(field) \in DOMAIN d.v THEN d.v[VStr(field)]
    ELSE NoTag

UnknownVariant == Raise("InvalidFieldValue")

\* the own decode of each candidate for the input, in the order of the
\* candidates
Trials(cands, d, opts) ==
    [i \in 1..Len(cands) |-> VariantFromDict(cands[i], d, opts)]

\* tag mode: one lookup, then the matched class's own decode
DecodeByTag(cands, results, c) ==
    Outcome(IF c = "" THEN UnknownVariant ELSE results[IndexOf(cands, c)],
            NoKwargs, IF c = "" THEN <<>> ELSE <<c>>, c # "", <<>>)

Accepts(c, d, opts) == ~IsRaise(VariantFromDict(c, d, opts))

\* a trial that goes on after a candidate accepted, which C14 must tell
\* apart
TriedAll(cands, results) == cands

\* structural mode: the candidates tried, up to the first that accepts
Tried(cands, results) ==
    IF \E i \in 1..Len(cands) : ~IsRaise(results[i])
    THEN SubSeq(cands, 1,
                CHOOSE i \in 1..Len(cands) :
                    /\ ~IsRaise(results[i])
                    /\ \A j \in 1..(i - 1) : IsRaise(results[j]))
    ELSE cands

DecodeByTrial(tried, results) ==
    Outcome(IF tried # <<>> /\ ~IsRaise(results[Len(tried)])
            THEN results[Len(tried)]
            ELSE UnknownVariant,
            NoKwargs, tried,
            tried # <<>> /\ ~IsRaise(results[Len(tried)]), <<>>)

\* the resolver over the candidates and the outcome of the decode of each
DispatchOver(cands, disc, d, results) ==
    IF disc.field # ""
    THEN DecodeByTag(cands, results,
                     LookupTag(cands, disc, TagIn(d, disc.field)))
    ELSE DecodeByTrial(Tried(cands, results), results)

\* the decode of a value declared as B under disc; trace lists the classes
\* whose decode was run
Dispatch(B, disc, d, opts) ==
    DispatchOver(Candidates(B, disc), disc, d,
                 Trials(Candidates(B, disc), d, opts))


\* the field x of the class that owns the discriminated value, declared as
\* Annotated[B, Discriminator(...)] with no default
OwnerField(B) == [fname |-> "x", ftype |-> TDataclass(B), required |-> TRUE]

\* Owner.from_dict({"x": d}): the generated statements of the field x with
\* the resolver as the field's expression, then Owner(**kwargs)
FieldDispatch(B, d, inner) ==
    Outcome(IF FromDictStep("Owner", OwnerField(B), d, inner.result).exc
                   # None
            THEN FromDictStep("Owner", OwnerField(B), d, inner.result).exc
            ELSE Obj("Owner", [n \in {"x"} |-> inner.result]),
            NoKwargs, inner.trace, ~IsRaise(inner.result), <<>>)
---------------------------------------------------------------------------
(* The calls.  Each behaviour is one call: the initial state holds its     *)
(* arguments, the actions run what the call runs.                          *)

AllOpts == {Opts(b, e, d) : b \in BOOLEAN, e \in BOOLEAN, d \in BOOLEAN}

DefaultOpts == Opts(FALSE, FALSE, FALSE)

NoResult == Outcome(None, NoKwargs, <<>>, FALSE, <<>>)

Absent == V("absent", 0)

D1(k, v) == VDict([x \in {VStr(k)} |-> v])

\* the raw values a call supplies for a field; Absent leaves the key out
RawValues(cls, fname) ==
    CASE fname \in {"a", "x"} ->
            {Absent, None, VInt(1), VStr("2"), VStr("a"), VList(<<>>)}
      [] fname = "f" -> {Absent, None, VInt(1), VStr("a")}
      [] fname = "b" -> {Absent, None, VStr("a")}
      [] fname = "c" ->
            {Absent, None, EmptyDict, D1("x", VInt(1)), D1("x", VStr("a")),
             VInt(1)}
      [] fname = "d" -> {Absent, None, VInt(2), VStr("a")}
      [] fname = "e" ->
            {Absent, VList(<<VInt(1)>>), VList(<<VStr("a")>>), VInt(1)}

\* every mapping that gives each field one of its raw values
RECURSIVE InputsOver(_, _)
InputsOver(cls, names) ==
    IF names = <<>> THEN {NoKwargs}
    ELSE LET rest == InputsOver(cls, Tail(names))
             n == VStr(Head(names))
         IN {IF v = Absent THEN f
             ELSE [k \in (DOMAIN f) \cup {n} |->
                      IF k = n THEN v ELSE f[k]] :
                 f \in rest, v \in RawValues(cls, Head(names))}

StringKeyedInputs(cls) == {VDict(f) : f \in InputsOver(cls, FieldNames(cls))}

\* arguments that are no string-keyed mapping
NonMappingInputs ==
    {None, VInt(1), VStr("a"), VList(<<>>), VList(<<VStr("a")>>),
     VDict([k \in {VInt(1)} |-> VInt(1)])}

DecodeClasses == {"Empty", "Inner", "Rec", "Sub"}

Call(op, cls, d, opts) ==
    [op |-> op, cls |-> cls, d |-> d, opts |-> opts, disc |-> NoDisc]

DecodeCalls ==
    UNION {{Call("from_dict", c, d, DefaultOpts) :
               d \in StringKeyedInputs(c) \cup NonMappingInputs} :
           c \in DecodeClasses}

InnerOne == Obj("Inner", [x |-> VInt(1)])

\* valid values of the fields of the plain records
FieldValues(fname) ==
    CASE fname \in {"a", "x"} -> {VInt(1), VInt(2)}
      [] fname = "f" -> {VInt(7)}
      [] fname = "b" -> {VStr("a"), VStr("b")}
      [] fname = "c" -> {InnerOne}
      [] fname = "d" -> {None, VInt(2)}
      [] fname = "e" -> {VList(<<>>), VList(<<VInt(1)>>)}

\* every assignment of values to names; nulls adds None to each choice
RECURSIVE Assignments(_, _)
Assignments(names, nulls) ==
    IF names = <<>> THEN {NoKwargs}
    ELSE {Bind(f, Head(names), v) :
             f \in Assignments(Tail(names), nulls),
             v \in FieldValues(Head(names)) \cup
                       (IF nulls THEN {None} ELSE {})}

Instances(cls, nulls) ==
    {Obj(cls, f) : f \in Assignments(FieldNames(cls), nulls)}

\* valid values of the field v of the single-field records
BoxValues ==
    [BoxInt |-> {VInt(0), VInt(1)},
     BoxStr |-> {VStr(""), VStr("a")},
     BoxFloat |-> {VFloat(1)},
     BoxBool |-> {VBool(TRUE), VBool(FALSE)},
     BoxOptional |-> {None, VInt(1)},
     BoxList |-> {VList(<<>>), VList(<<VInt(1), VInt(2)>>)},
     BoxTuple |-> {VTuple(<<>>), VTuple(<<VInt(1), VInt(2)>>)},
     BoxDeque |-> {VDeque(<<VInt(2), VInt(1)>>)},
     BoxSet |-> {VSet({}), VSet({VInt(1), VInt(2)})},
     BoxFrozenSet |-> {VFrozenset({VInt(1)})},
     BoxSequence |-> {VList(<<VInt(1)>>)},
     BoxDict |-> {EmptyDict, D1("a", VInt(1))},
     BoxMapping |-> {D1("a", VInt(1))},
     BoxChainMap |->
         {VChainMap(<<D1("a", VInt(1))>>),
          VChainMap(<<D1("a", VInt(1)), D1("b", VInt(2))>>)},
     BoxBytes |-> {VBytes("hi"), VBytes("")},
     BoxByteArray |-> {VBytearray("hi")},
     BoxEnum |-> {EnumMember("Color", "RED"), EnumMember("Color", "ONE")},
     BoxPath |-> {Path("PurePosixPath", "/tmp")},
     BoxDate |-> {VDate("2023-05-30")},
     BoxTime |-> {VTime("12:00:00")},
     BoxDatetime |-> {VDatetime("2023-05-30T12:00:00")},
     BoxTimedelta |-> {VTimedelta(1)},
     BoxTimezone |-> {VTimezone("UTC"), VTimezone("UTC+03:00")},
     BoxUUID |-> {VUUID("3c25dd74-f208-46a2-9606-dd3919e975b7")},
     BoxDecimal |-> {VDecimal("1.5")},
     BoxFraction |-> {VFraction("1/2")},
     BoxRecord |-> {InnerOne},
     BoxListOfOptional |-> {VList(<<VInt(1)>>), VList(<<VInt(1), None>>)},
     BoxOptionalList |-> {None, VList(<<VInt(1)>>)},
     BoxListOfRecord |-> {VList(<<InnerOne>>)},
     BoxDictOfOptional |-> {D1("a", VInt(1)), D1("a", None)},
     BoxDictByOptional |-> {D1("a", VInt(1))}]

Box(c, v) == Obj(c, [n \in {"v"} |-> v])

EncodeCalls ==
    UNION {{Call("to_dict", c, self, DefaultOpts) :
               self \in Instances(c, TRUE)} : c \in DecodeClasses}
    \cup
    UNION {{Call("to_dict", c, Box(c, v), o) :
               v \in BoxValues[c] \cup {None}, o \in AllOpts} :
           c \in DOMAIN BoxTypes}

RoundTripCalls ==
    UNION {{Call("round_trip", c, self, DefaultOpts) :
               self \in Instances(c, FALSE)} : c \in DecodeClasses}
    \cup
    UNION {{Call("round_trip", c, Box(c, v), o) :
               v \in BoxValues[c], o \in AllOpts} : c \in DOMAIN BoxTypes}

BuildCalls == {Call("build", c, None, DefaultOpts) : c \in ClassNames}

\* the discriminators of the tests, and the same with other flags
Discriminators ==
    ({Disc(f, sub, sup, "") :
         f \in {"", "type"}, sub \in BOOLEAN, sup \in BOOLEAN}
     \ {Disc(f, FALSE, FALSE, "") : f \in {"", "type"}})
    \cup {Disc("type", TRUE, sup, "lower") : sup \in BOOLEAN}

Tagged(tag, rest) == VDict(Bind(rest, VStr("type"), tag))

DT_STR == VStr("2023-05-30")

XOnly(x) == [k \in {VStr("x")} |-> x]

FooFields ==
    [k \in {VStr("x1"), VStr("x2"), VStr("x")} |->
        CASE k = VStr("x1") -> VInt(1)
          [] k = VStr("x2") -> VInt(2)
          [] k = VStr("x") -> VInt(42)]

\* the inputs of the tests, and inputs no variant or several variants take
VariantInputs ==
    {Tagged(VStr(t), XOnly(DT_STR)) :
        t \in {"str_1", "str_12", "date_12", "date_1", "str_21", "date_22",
               "unknown"}}
    \cup {Tagged(VStr(t), NoKwargs) :
             t \in {"variantwitcustomtaggersub1",
                    "variantwitcustomtaggersub2", "unknown", "foo4"}}
    \cup {Tagged(VInt(4), FooFields), Tagged(VInt(3), FooFields),
          VDict(FooFields), VDict([k \in {VStr("x1")} |-> VInt(1)]),
          EmptyDict, VDict(XOnly(DT_STR)), VDict(XOnly(VStr("a"))), VInt(1)}

DispatchCalls ==
    {[Call("dispatch", B, d, DefaultOpts) EXCEPT !.disc = disc] :
        B \in DOMAIN VariantClasses, d \in VariantInputs,
        disc \in Discriminators}

\* Owner.from_dict({"x": d}) for an owner whose field x is declared as B
\* under disc
FieldCalls ==
    {[c EXCEPT !.op = "field_dispatch"] : c \in DispatchCalls}

\* the single-field records of the kinds the orjson dialect names, and two
\* it does not name
OrjsonClasses ==
    {"BoxDatetime", "BoxDate", "BoxTime", "BoxUUID", "BoxInt", "BoxDecimal"}

\* the generic tree orjson.loads hands to the unpacker for a record whose
\* field v holds x: the text of a date, time, datetime, UUID or Decimal,
\* the value itself otherwise
WireOf(c, x) ==
    D1("v", IF x.t \in {"date", "time", "datetime"} THEN IsoFormat(x)
            ELSE IF x.t \in {"uuid", "decimal"} THEN PyStr(x)
            ELSE x)

\* to_jsonb of a record of a DataClassORJSONMixin class, and from_json of
\* the tree of such a record
OrjsonCalls ==
    UNION {{Call("to_jsonb", c, Box(c, x), DefaultOpts) :
               x \in BoxValues[c] \cup {None}} : c \in OrjsonClasses}
    \cup
    UNION {{Call("from_json", c, WireOf(c, x), DefaultOpts) :
               x \in BoxValues[c] \cup {None}} : c \in OrjsonClasses}

\* to_dict, from_dict and the round trip of the records whose field goes
\* through a serialization strategy
StrategyCalls ==
    {Call(op, c, Box(c, VDecimal("1.5")), DefaultOpts) :
        op \in {"to_dict", "round_trip"}, c \in DOMAIN StrategyTypes}
    \cup {Call("from_dict", c, D1("v", VStr("1.5")), DefaultOpts) :
             c \in DOMAIN StrategyTypes}

\* the date, time and datetime records with and without a field descriptor
DatetimeClasses ==
    DOMAIN StampClasses \cup {"BoxDate", "BoxTime", "BoxDatetime"}

\* the text of each kind, and a value of the kind itself
StampInputs(kind) ==
    CASE kind = "date" -> {VStr("2023-05-30"), VDate("2023-05-30")}
      [] kind = "time" -> {VStr("12:00:00"), VTime("12:00:00")}
      [] kind = "datetime" ->
            {VStr("2023-05-30T12:00:00"), VDatetime("2023-05-30T12:00:00")}

\* the date, time and datetime records that exist: the class statement of
\* the others raises in the datetime branch of _unpack_field_value
StampsBuilt ==
    {c \in DatetimeClasses :
        MetadataOf(c, "v") \in
            {"NoMetadata", "ciso8601", "pendulum", "function"}}

\* from_dict of the date, time and datetime records that exist, with and
\* without use_datetime
StampCalls ==
    UNION {{Call("from_dict", c, D1("v", x), o) :
               x \in StampInputs(Classes[c].ann[1].type.k), o \in AllOpts} :
           c \in StampsBuilt}

\* from_dict of the records of the chains, with and without the key x
ChainCalls ==
    {Call("from_dict", c, d, DefaultOpts) :
        c \in DOMAIN ChainClasses, d \in {EmptyDict, D1("x", VInt(2))}}

Calls ==
    DecodeCalls \cup EncodeCalls \cup RoundTripCalls \cup BuildCalls
                \cup DispatchCalls \cup FieldCalls \cup OrjsonCalls
                \cup StrategyCalls \cup StampCalls \cup ChainCalls

Init ==
    /\ pc = "start"
    /\ call \in Calls
    /\ res = NoResult
    /\ builder = NewBuilder
    /\ installed = NoRoutines

\* what the class statement of cls leaves behind, r being the outcome of
\* add_from_dict and add_to_dict
SetUp(cls, r) ==
    /\ res' = [NoResult EXCEPT
                  !.result = FirstFailure(r.from_dict, r.to_dict)]
    /\ builder' = BuilderWith(builder, cls, r)
    /\ installed' = InstalledWith(installed, cls, r)

\* the class is created: its two routines are built
Build ==
    /\ pc = "start"
    /\ call.op = "build"
    /\ SetUp(call.cls, Routines(call.cls))
    /\ pc' = "done"
    /\ UNCHANGED call

\* self.to_dict(...), the first half of a round trip included
ToDict ==
    /\ pc = "start"
    /\ call.op \in {"to_dict", "round_trip"}
    /\ res' = ToDictRun(call.d, call.opts)
    /\ pc' = IF call.op = "round_trip" THEN "encoded" ELSE "done"
    /\ UNCHANGED <<call, builder, installed>>

\* cls.from_dict(d, ...)
FromDict ==
    /\ pc = "start"
    /\ call.op = "from_dict"
    /\ res' = FromDictRun(call.cls, call.d, call.opts)
    /\ pc' = "done"
    /\ UNCHANGED <<call, builder, installed>>

\* the second half of a round trip: cls.from_dict(self.to_dict(...), ...)
FromDictOfToDict ==
    /\ pc = "encoded"
    /\ ~IsRaise(res.result)
    /\ res' = FromDictRun(call.cls, res.result, call.opts)
    /\ pc' = "done"
    /\ UNCHANGED <<call, builder, installed>>

\* the decode of a field declared as call.cls under call.disc
Discriminate ==
    /\ pc = "start"
    /\ call.op = "dispatch"
    /\ res' = Dispatch(call.cls, call.disc, call.d, call.opts)
    /\ pc' = "done"
    /\ UNCHANGED <<call, builder, installed>>

\* the from_dict of the class that owns a field declared as call.cls under
\* call.disc
DiscriminateField ==
    /\ pc = "start"
    /\ call.op = "field_dispatch"
    /\ res' = FieldDispatch(call.cls, call.d,
                            Dispatch(call.cls, call.disc, call.d, call.opts))
    /\ pc' = "done"
    /\ UNCHANGED <<call, builder, installed>>

\* self.to_jsonb(): the packer built under the dialect, up to the encoder
ToJsonb ==
    /\ pc = "start"
    /\ call.op = "to_jsonb"
    /\ res' = Run(Task("to_dict", AddPacker(call.cls, OrjsonBuilderParams),
                       call.cls, Env(call.d, call.opts)))
    /\ pc' = "done"
    /\ UNCHANGED <<call, builder, installed>>

\* cls.from_json(data): the unpacker built under the dialect, from the
\* decoder's tree on
FromJson ==
    /\ pc = "start"
    /\ call.op = "from_json"
    /\ res' = Run(Task("from_dict",
                       AddUnpacker(call.cls, OrjsonBuilderParams),
                       call.cls, Env(call.d, call.opts)))
    /\ pc' = "done"
    /\ UNCHANGED <<call, builder, installed>>

Next ==
    \/ Build
    \/ ToDict
    \/ FromDict
    \/ FromDictOfToDict
    \/ Discriminate
    \/ DiscriminateField
    \/ ToJsonb
    \/ FromJson

Spec == Init /\ [][Next]_vars


---------------------------------------------------------------------------
(* The life of the record types: each class is created once, which builds  *)
(* and installs its two routines, and is then called any number of times.  *)

LifeClasses == DecodeClasses

\* the classes that must exist before cls is created: its base and the
\* record types of its fields
Requires(cls) ==
    ({Classes[cls].parent} \ {""})
    \cup {Classes[cls].ann[i].type.n :
             i \in {j \in 1..Len(Classes[cls].ann) :
                       Classes[cls].ann[j].type.k = "dataclass"}}

LifeInputs ==
    {EmptyDict, D1("x", VInt(1)), D1("x", VStr("a")), VInt(1), None,
     VDict([k \in {VStr("a"), VStr("c")} |->
              IF k = VStr("a") THEN VInt(1) ELSE D1("x", VInt(1))])}

LifeSelves(cls) ==
    {self \in Instances(cls, FALSE) :
        \A n \in DOMAIN self.v.f : n \in {"a", "x"} \/ self.v.f[n] # VInt(2)}

NoCall == Call("none", "", None, DefaultOpts)

LifeInit ==
    /\ pc = "running"
    /\ call = NoCall
    /\ res = NoResult
    /\ builder = NewBuilder
    /\ installed = NoRoutines

\* the class statement of cls runs: CodeBuilder(cls).add_from_dict() and
\* .add_to_dict()
CreateClass ==
    \E cls \in LifeClasses \ DOMAIN installed :
        /\ Requires(cls) \subseteq DOMAIN installed
        /\ builder' = BuilderAfter(NewBuilder, cls)
        /\ installed' = InstalledAfter(installed, cls)
        /\ UNCHANGED <<pc, call, res>>

\* cls.from_dict(d) on a class that exists
CallFromDict ==
    \E cls \in DOMAIN installed, d \in LifeInputs :
        /\ call' = Call("from_dict", cls, d, DefaultOpts)
        /\ res' = Run(Task("from_dict", FromDictOf(installed, cls), cls,
                           Env(d, DefaultOpts)))
        /\ builder' = BuilderAfterCall(builder, cls)
        /\ UNCHANGED <<pc, installed>>

\* self.to_dict() on an instance of a class that exists
CallToDict ==
    \E cls \in DOMAIN installed :
        \E self \in LifeSelves(cls) :
            /\ call' = Call("to_dict", cls, self, DefaultOpts)
            /\ res' = Run(Task("to_dict", ToDictOf(installed, cls), cls,
                               Env(self, DefaultOpts)))
            /\ builder' = BuilderAfterCall(builder, cls)
            /\ UNCHANGED <<pc, installed>>

LifeNext == CreateClass \/ CallFromDict \/ CallToDict

LifeSpec == LifeInit /\ [][LifeNext]_vars

----------------------------------------------------------------------------
(* The bookkeeping of one CodeBuilder: reset, ensure_module_imported, the  *)
(* indent context manager and add_line, called in any order.  call holds   *)
(* the method called last, its d the module name handed to it.             *)

\* the deepest nesting of with self.indent() followed
MaxIndent == 1

\* the number of lines add_line emits besides the import bookkeeping
MaxStatements == 1

\* module names handed to ensure_module_imported: of the initial set, with
\* a root of the initial set, sharing a root, and unrelated
Modules ==
    {<<"os">>, <<"os", "path">>, <<"entities">>, <<"entities", "sub">>,
     <<"ciso8601">>}

MethodCall(op, module) == Call(op, "", module, DefaultOpts)

Statements(b) == {i \in DOMAIN b.lines : b.lines[i].kind = "statement"}

BuilderInit ==
    /\ pc = "constructed"
    /\ call = NoCall
    /\ res = NoResult
    /\ builder = NewBuilder
    /\ installed = NoRoutines

\* self.reset()
CallReset ==
    /\ builder' = Reset(builder)
    /\ call' = MethodCall("reset", <<>>)
    /\ pc' = "reset"
    /\ UNCHANGED <<res, installed>>

\* self.ensure_module_imported(module)
CallEnsureModuleImported ==
    \E module \in Modules :
        /\ builder' = EnsureModuleImported(builder, module)
        /\ call' = MethodCall("ensure_module_imported", module)
        /\ UNCHANGED <<pc, res, installed>>

\* with self.indent(): is entered
EnterIndent ==
    /\ builder.indent < MaxIndent
    /\ builder' = Indent(builder)
    /\ call' = MethodCall("indent", <<>>)
    /\ UNCHANGED <<pc, res, installed>>

\* with self.indent(): is left
LeaveIndent ==
    /\ builder.indent > 0
    /\ builder' = Dedent(builder)
    /\ call' = MethodCall("dedent", <<>>)
    /\ UNCHANGED <<pc, res, installed>>

\* self.add_line(...) of a line of the routine
CallAddLine ==
    /\ Cardinality(Statements(builder)) < MaxStatements
    /\ builder' = AddLine(builder, "statement", <<>>)
    /\ call' = MethodCall("add_line", <<>>)
    /\ UNCHANGED <<pc, res, installed>>

BuilderNext ==
    \/ CallReset
    \/ CallEnsureModuleImported
    \/ EnterIndent
    \/ LeaveIndent
    \/ CallAddLine

BuilderSpec == BuilderInit /\ [][BuilderNext]_vars
---------------------------------------------------------------------------
(* Properties of from_dict, stated on the outcome of a call.               *)

Done == pc = "done"

TypeOf(cls, fname) == FieldTypes(cls)[IndexOf(FieldNames(cls), fname)].type

PlanOf(cls, fname) ==
    AddFromDict(cls).fields[IndexOf(FieldNames(cls), fname)]

\* the dataclass field has a default value or a default factory
HasDefault(cls, fname) ==
    \/ DcFields(cls)[fname].default # MISSING
    \/ DcFields(cls)[fname].factory # MISSING

\* what the constructor supplies for an omitted field
SuppliedDefault(cls, fname) ==
    IF DcFields(cls)[fname].default # MISSING
    THEN DcFields(cls)[fname].default
    ELSE DcFields(cls)[fname].factory.v

IsStringKeyedMapping(d) ==
    d.t = "dict" /\ \A k \in DOMAIN d.v : k.t = "str"

KeyAbsent(d, fname) == VStr(fname) \notin DOMAIN d.v

\* the fields whose generated statements have run
Processed == {res.trace[i] : i \in 1..Len(res.trace)}

LastProcessed == res.trace[Len(res.trace)]

\* a class of the base chain annotates again, with no value, a field that a
\* base gave a default: the declaration and the dataclass field differ
AnnotatesAgainBare(cls) ==
    \E i \in 1..Len(Mro(cls)) :
        \E n \in SetOfSeq(NamesOf(Annotations(Mro(cls)[i]))) :
            /\ n \notin DOMAIN Namespace(Mro(cls)[i])
            /\ InheritedAttr(Mro(cls)[i], n) # MISSING

C2_DecodeFailureIsInvalidFieldValue ==
    (Done /\ call.op = "from_dict" /\ IsStringKeyedMapping(call.d)
          /\ res.trace # <<>>) =>
        LET f == LastProcessed
            value == DGet(call.d, f)
            r == Eval(PlanOf(call.cls, f).expr, Env(value, call.opts))
        IN (value # MISSING /\ value # None) =>
               /\ IsRaise(r) =>
                      res.result =
                          Exc("InvalidFieldValue", f,
                              FieldTypeName(TypeOf(call.cls, f)),
                              value, call.cls, KindOf(r))
               /\ IsRaise(res.result) =>
                      /\ IsRaise(r)
                      /\ KindOf(res.result) = "InvalidFieldValue"

\* a nested record's MissingField wrapped by the outer field
C2_Witness ==
    /\ Done /\ call.op = "from_dict" /\ call.cls = "Rec"
    /\ res.result = Exc("InvalidFieldValue", "c", TDataclass("Inner"),
                        EmptyDict, "Rec", "MissingField")

\* the field's own statements raise for this input
FieldFails(cls, d, opts, fname) ==
    LET value == DGet(d, fname)
    IN \/ value = MISSING /\ PlanOf(cls, fname).required
       \/ /\ value # MISSING /\ value # None
          /\ IsRaise(Eval(PlanOf(cls, fname).expr, Env(value, opts)))

IsPrefix(s, t) == Len(s) <= Len(t) /\ \A i \in 1..Len(s) : s[i] = t[i]

(* C4: from_dict returns no partially built instance.  The constructor is  *)
(* called only after every field was processed without error, fields are   *)
(* processed in declaration order, and the error raised names the first    *)
(* failing field in declaration order.                                     *)
C4_FirstFailingFieldInOrder ==
    (Done /\ call.op = "from_dict" /\ IsStringKeyedMapping(call.d)) =>
        /\ IsPrefix(res.trace, FieldNames(call.cls))
        /\ res.constructed <=> (res.result.t = "obj")
        /\ res.constructed =>
               /\ res.trace = FieldNames(call.cls)
               /\ \A f \in Processed :
                      ~FieldFails(call.cls, call.d, call.opts, f)
               /\ DOMAIN res.result.v.f = Processed
        /\ ~res.constructed =>
               /\ IsRaise(res.result)
               /\ res.trace # <<>>
               /\ res.result.v.field_name = LastProcessed
               /\ \A i \in 1..Len(res.trace) :
                      FieldFails(call.cls, call.d, call.opts, res.trace[i])
                          <=> i = Len(res.trace)

\* two bad fields in one input: the earlier one is reported
C4_Witness ==
    /\ Done /\ call.op = "from_dict" /\ call.cls = "Rec"
    /\ FieldFails("Rec", call.d, call.opts, "a")
    /\ FieldFails("Rec", call.d, call.opts, "c")
    /\ res.result.v.field_name = "a"
    /\ ~res.constructed

(* C5: for every record type, whatever the number of its fields, and every *)
(* top-level input that is not a string-keyed mapping, from_dict fails     *)
(* with the argument-shape error naming the target type and constructs no  *)
(* instance.                                                               *)
C5_NonMappingInputRejected ==
    (Done /\ call.op = "from_dict" /\ ~IsStringKeyedMapping(call.d)) =>
        /\ res.result = ArgumentShapeError(call.cls)
        /\ ~res.constructed

IsOptional(ftype) == ftype.k = "union" /\ IsOptionalArgs(ftype.a)

(* C6: a field whose key is present with a null value is bound to null     *)
(* without its decode expression being applied, and a null supplied for a  *)
(* field of non-optional type never yields an instance holding null in     *)
(* that field.                                                             *)
C6_NullOnlyForOptional ==
    (Done /\ call.op = "from_dict" /\ IsStringKeyedMapping(call.d)) =>
        \A f \in Processed :
            DGet(call.d, f) = None =>
                /\ f \in DOMAIN res.kwargs /\ res.kwargs[f] = None
                /\ (res.result.t = "obj" /\ res.result.v.f[f] = None) =>
                       IsOptional(TypeOf(call.cls, f))

---------------------------------------------------------------------------
(* Properties of to_dict, of the round trip and of building a class.       *)

\* what to_dict stores for the field fname of self
Encoded(cls, self, opts, fname) ==
    IF self.v.f[fname] = None THEN None
    ELSE Eval(PackValue(fname, TypeOf(cls, fname), cls, "value"),
              Env(self.v.f[fname], opts))

KeysOf(items) == [i \in 1..Len(items) |-> items[i][1]]

\* the mapping to_dict has returned for the call
ToDictShape ==
    IF \E i \in 1..Len(FieldNames(call.cls)) :
           IsRaise(Encoded(call.cls, call.d, call.opts,
                           FieldNames(call.cls)[i]))
    THEN IsRaise(res.result)
    ELSE /\ res.result.t = "dict"
         /\ KeysOf(res.items) = FieldNames(call.cls)
         /\ DOMAIN res.result.v =
                {VStr(FieldNames(call.cls)[i]) :
                    i \in 1..Len(FieldNames(call.cls))}
         /\ \A i \in 1..Len(res.items) :
                /\ res.items[i][2] =
                       Encoded(call.cls, call.d, call.opts, res.items[i][1])
                /\ res.result.v[VStr(res.items[i][1])] = res.items[i][2]
                /\ call.d.v.f[res.items[i][1]] = None =>
                       res.items[i][2] = None
         /\ Classes[call.cls].parent # "" =>
                IsPrefix(FieldNames(Classes[call.cls].parent),
                         FieldNames(call.cls))

(* C7: to_dict returns a mapping with exactly one key per schema field and *)
(* no other key, in declaration order, base-type fields first; a field     *)
(* whose value is null appears with a null value, every other field holds  *)
(* the result of its encode expression, and the instance is left           *)
(* unchanged.                                                              *)
C7_ToDictOneKeyPerField ==
    /\ []((Done /\ call.op = "to_dict") => ToDictShape)
    /\ [][(pc = "start" /\ call.op = "to_dict") => call' = call]_vars

\* a subclass instance with a null field: the base fields come first
C7_Witness ==
    /\ Done /\ call.op = "to_dict" /\ call.cls = "Sub"
    /\ call.d.v.f["d"] = None
    /\ KeysOf(res.items) = <<"a", "c", "b", "d", "e", "f">>
    /\ res.items[4][2] = None
    /\ res.items[2][2] = D1("x", VInt(1))

(* C3: round trip.  For every supported field type kind and every valid    *)
(* instance v, from_dict(to_dict(v, opts), opts) = v for each combination  *)
(* of the use_bytes, use_enum and use_datetime flags.                      *)
C3_RoundTrip ==
    call.op = "round_trip" =>
        /\ pc = "encoded" => ~IsRaise(res.result)
        /\ pc = "done" => res.result = call.d

UnsupportedShapes == DOMAIN ShapeTypes

(* C8: every unsupported field shape (free type variable, AnyStr, bare     *)
(* unparametrized container, non-optional union, mapping keyed by a record *)
(* type) makes building the owning record type fail, and the error names   *)
(* the offending field, its declared type and the owning record type.      *)
C8_UnsupportedShapeNamesField ==
    (Done /\ call.op = "build" /\ call.cls \in UnsupportedShapes) =>
        /\ IsCErr(res.result)
        /\ res.result.field_name = "v"
        /\ res.result.field_type = ShapeTypes[call.cls]
        /\ res.result.holder = call.cls

---------------------------------------------------------------------------
(* Properties of the Discriminator Resolver.                               *)

\* a is a proper ancestor of c
IsAncestor(a, c) == a # c /\ InSeq(a, Mro(c))

Depth(c) == Len(Mro(c))

TreeClasses == DOMAIN VariantClasses

DeclaredAt(c) == IndexOf(ClassOrder, c)

TagCall ==
    /\ Done /\ call.op = "dispatch"
    /\ call.disc.field # "" /\ call.disc.include_subtypes

StructuralCall == Done /\ call.op = "dispatch" /\ call.disc.field = ""

(* C9: tag mode with include_subtypes.  The tag map covers every class of  *)
(* the full descendant tree of the declared base B that has a tag, the tag *)
(* being the literal the class assigns to the tag field or                 *)
(* variant_tagger_fn(class); an input whose tag field equals the tag of    *)
(* class D is decoded by D's own decode and yields an instance of exactly  *)
(* D, also when D redefines a tag inherited from its parent.               *)
C9_TagSelectsExactClass ==
    TagCall =>
        \A D \in TreeClasses :
            (IsAncestor(call.cls, D) /\ TagOf(D, call.disc) # NoTag) =>
                /\ LookupTag(Candidates(call.cls, call.disc), call.disc,
                             TagOf(D, call.disc)) = D
                /\ TagIn(call.d, call.disc.field) = TagOf(D, call.disc) =>
                       /\ res.trace = <<D>>
                       /\ res.result =
                              VariantFromDict(D, call.d, call.opts)
                       /\ res.result.t = "obj" => res.result.v.cls = D

\* the tag of a class two levels below the base, which redefines the tag
\* of its parent
C9_Witness ==
    /\ TagCall /\ call.cls = "BaseVariant" /\ call.disc.tagger = ""
    /\ TagIn(call.d, "type") = VStr("str_12")
    /\ res.result.t = "obj" /\ res.result.v.cls = "VariantStr12"

SetOf(s) == {s[i] : i \in 1..Len(s)}

AcceptedBy(c) == Accepts(c, call.d, call.opts)

---------------------------------------------------------------------------
(* The subtype tree Foo1 > Foo2 > Foo3, Foo4, in which the intermediate    *)
(* class Foo2 declares fewer fields than its children.                     *)

\* the input carries every key the leaf classes declare
CarriesLeafKeys(d) ==
    /\ IsDictInstance(d)
    /\ {VStr("x1"), VStr("x2"), VStr("x")} \subseteq DOMAIN d.v

FooCall ==
    /\ Done /\ call.op = "dispatch"
    /\ call.cls = "Foo1" /\ call.disc.include_subtypes
    /\ call.disc.tagger = ""
    /\ CarriesLeafKeys(call.d)

(* C11: for the tree Foo1 > Foo2 > Foo3, Foo4 and an input that carries    *)
(* every key of the leaf classes, a structural field with include_subtypes *)
(* resolves to the intermediate class Foo2: the descendants are walked     *)
(* parent before children in declaration order, keys Foo2 does not declare *)
(* do not make its decode fail, and the first accepting candidate is       *)
(* returned.  The same input on a tag-mode field resolves to the leaf      *)
(* whose class-level tag equals the input's tag; Foo1 and Foo2, which have *)
(* no tag attribute, are no tag candidates.                                *)
C11_IntermediateClassWins ==
    FooCall =>
        /\ Descendants("Foo1") = <<"Foo2", "Foo3", "Foo4">>
        /\ call.disc.field = "" =>
               /\ res.trace = <<"Foo2">>
               /\ res.constructed
               /\ res.result =
                      Obj("Foo2", [n \in {"x1", "x2"} |-> call.d.v[VStr(n)]])
               /\ res.result = FromDictRun("Foo2", call.d, call.opts).result
        /\ call.disc.field = "type" =>
               /\ TagOf("Foo1", call.disc) = NoTag
               /\ TagOf("Foo2", call.disc) = NoTag
               /\ res.constructed => res.result.v.cls \in {"Foo3", "Foo4"}
               /\ TagIn(call.d, "type") = VInt(4) =>
                      res.result =
                          Obj("Foo4", [n \in {"x1", "x2", "x"} |->
                                          call.d.v[VStr(n)]])
               /\ TagIn(call.d, "type") = VInt(3) =>
                      res.result.v.cls = "Foo3"
               /\ TagIn(call.d, "type") \notin {VInt(3), VInt(4)} =>
                      IsRaise(res.result)

\* baz2 of the test: the structural field takes Foo2 for the input of Foo4
C11_Witness ==
    /\ FooCall /\ call.disc.field = "" /\ ~call.disc.include_supertypes
    /\ call.d = Tagged(VInt(4), FooFields)
    /\ res.result.t = "obj" /\ res.result.v.cls = "Foo2"

---------------------------------------------------------------------------
(* The discriminated field seen from the class that owns it.               *)

FieldCall == Done /\ call.op = "field_dispatch"

\* what the resolver alone returns for the call
Resolved == Dispatch(call.cls, call.disc, call.d, call.opts)

\* the tag of the input is the tag of no candidate, or the input has none
UnknownTag ==
    LookupTag(Candidates(call.cls, call.disc), call.disc,
              TagIn(call.d, call.disc.field)) = ""

\* every candidate's own decode refuses the input
Exhausted ==
    \A c \in SetOf(Candidates(call.cls, call.disc)) : ~AcceptedBy(c)

(* C12: every failure of the discriminator resolution, in both modes,      *)
(* reaches the caller of the owning class's from_dict as one               *)
(* InvalidFieldValue whose field name is the discriminated field: an       *)
(* unknown or missing tag in tag mode, the exhaustion of all candidates in *)
(* structural mode, and a failing decode of the selected class; the error  *)
(* of a candidate and any other exception type never escape.               *)
C12_ResolutionFailureIsInvalidFieldValue ==
    FieldCall =>
        /\ (call.disc.field # "" /\ UnknownTag) => IsRaise(res.result)
        /\ (call.disc.field = "" /\ Exhausted) => IsRaise(res.result)
        /\ IsRaise(Resolved.result) => IsRaise(res.result)
        /\ IsRaise(res.result) =>
               /\ IsRaise(Resolved.result)
               /\ KindOf(res.result) = "InvalidFieldValue"
               /\ res.result.v.field_name = "x"
               /\ res.result.v.holder = "Owner"
               /\ res.result.v.field_value = call.d
               /\ res.result # Resolved.result
               /\ ~res.constructed
        /\ ~IsRaise(res.result) =>
               res.result = Obj("Owner", [n \in {"x"} |-> Resolved.result])

\* an unknown tag under a tag field (test_by_field_with_subtypes_exceptions)
C12_Witness ==
    /\ FieldCall /\ call.cls = "BaseVariant"
    /\ call.disc = Disc("type", TRUE, FALSE, "")
    /\ TagIn(call.d, "type") = VStr("unknown")
    /\ KindOf(res.result) = "InvalidFieldValue"
    /\ res.result.v.field_name = "x"

\* a field declared as B with include_supertypes and without
\* include_subtypes
SupertypesOnly ==
    /\ FieldCall
    /\ call.disc.include_supertypes /\ ~call.disc.include_subtypes

\* the value bound to the field x of the owner
Bound == res.result.v.f["x"]

\* the input's type key holds the Literal of a class other than c
CarriesLiteralOfOther(c) ==
    \E D \in LiteralClasses \ {c} :
        TagIn(call.d, "type") = Namespace(D)["type"].default

\* the tag field of the input holds the tag of B itself
CarriesOwnTag ==
    /\ TagIn(call.d, call.disc.field) # NoTag
    /\ TagIn(call.d, call.disc.field) = TagOf(call.cls, call.disc)

(* C13: for a field declared as B with include_supertypes set and          *)
(* include_subtypes unset the only candidate is B.  In structural mode the *)
(* field decodes to an instance of exactly B whenever B's own decode       *)
(* accepts the input (surplus keys ignored); in tag mode it does so only   *)
(* when, in addition, the input's tag equals B's own tag.  Every other     *)
(* input raises InvalidFieldValue whose field_name is that field: an input *)
(* B's decode refuses, which includes an input carrying the Literal of     *)
(* another class when B declares a Literal tag field, and in tag mode an   *)
(* input without the tag or a B without a tag.  The result is never an     *)
(* instance of a subtype or of an ancestor of B.                           *)
C13_SupertypesOnlyIsDeclaredType ==
    SupertypesOnly =>
        /\ Candidates(call.cls, call.disc) = <<call.cls>>
        /\ call.disc.field = "" =>
               (~IsRaise(res.result) <=> AcceptedBy(call.cls))
        /\ call.disc.field # "" =>
               (~IsRaise(res.result) <=>
                    (CarriesOwnTag /\ AcceptedBy(call.cls)))
        /\ ~IsRaise(res.result) =>
               /\ Bound = VariantFromDict(call.cls, call.d, call.opts)
               /\ Bound.v.cls = call.cls
        /\ IsRaise(res.result) =>
               /\ KindOf(res.result) = "InvalidFieldValue"
               /\ res.result.v.field_name = "x"
        /\ (call.cls \in LiteralClasses /\ CarriesLiteralOfOther(call.cls))
               => IsRaise(res.result)

\* x1 of test_by_field_with_supertypes: the tag of the declared type
C13_Witness ==
    /\ SupertypesOnly /\ call.disc.field = "type"
    /\ call.cls = "VariantStr1"
    /\ call.d = Tagged(VStr("str_1"), XOnly(DT_STR))
    /\ res.result.t = "obj" /\ Bound.v.cls = "VariantStr1"

\* C13 as claimed: every input B's own decode accepts yields B in both
\* modes, and every input carrying the tag literal of another class of the
\* tree raises
C13_AcceptedInputYieldsDeclaredType ==
    SupertypesOnly =>
        /\ AcceptedBy(call.cls) =>
               /\ res.result.t = "obj"
               /\ Bound.v.cls = call.cls
        /\ CarriesLiteralOfOther(call.cls) =>
               /\ IsRaise(res.result)
               /\ KindOf(res.result) = "InvalidFieldValue"
               /\ res.result.v.field_name = "x"
        /\ res.result.t = "obj" => Bound.v.cls = call.cls

---------------------------------------------------------------------------
(* Tag mode against structural mode, for one declared base, one pair of    *)
(* flags and one input.                                                    *)

\* the discriminator of the call in the other mode
OtherMode ==
    [call.disc EXCEPT !.field = IF call.disc.field = "" THEN "type" ELSE ""]

\* the owner's from_dict with the field in the other mode
OtherResult ==
    FieldDispatch(call.cls, call.d,
                  Dispatch(call.cls, OtherMode, call.d, call.opts)).result

\* the class the tag map holds for the input's tag, "" when none
TaggedClass ==
    LookupTag(Candidates(call.cls, call.disc),
              [call.disc EXCEPT !.field = "type"], TagIn(call.d, "type"))

Acceptors == {c \in SetOf(Candidates(call.cls, call.disc)) : AcceptedBy(c)}

ModeCall == FieldCall /\ call.disc.tagger = ""

\* the same instance, or InvalidFieldValue for the same field in both
SameOutcome(a, b) ==
    IF IsRaise(a) \/ IsRaise(b)
    THEN /\ IsRaise(a) /\ IsRaise(b)
         /\ KindOf(a) = "InvalidFieldValue" /\ KindOf(b) = "InvalidFieldValue"
         /\ a.v.field_name = b.v.field_name
    ELSE a = b

(* C14: for the same declared base and the same include_subtypes and       *)
(* include_supertypes flags, tag mode and structural trial give the same   *)
(* outcome for every input whose tag is the tag of a candidate D that is   *)
(* the only candidate to accept the input (the same instance of D), and    *)
(* for every input no candidate accepts (InvalidFieldValue for the field   *)
(* in both).                                                               *)
C14_TagAgreesWithTrial ==
    ModeCall =>
        /\ (TaggedClass # "" /\ Acceptors = {TaggedClass}) =>
               /\ res.result = OtherResult
               /\ res.result.t = "obj"
               /\ Bound.v.cls = TaggedClass
        /\ Acceptors = {} =>
               /\ IsRaise(res.result)
               /\ SameOutcome(res.result, OtherResult)

\* x1 of test_by_field_with_supertypes_and_subtypes: only VariantStr12
\* takes the input
C14_Witness ==
    /\ ModeCall /\ call.cls = "VariantStr1"
    /\ call.disc = Disc("type", TRUE, TRUE, "")
    /\ TagIn(call.d, "type") = VStr("str_12")
    /\ Acceptors = {"VariantStr12"}
    /\ Bound.v.cls = "VariantStr12"
    /\ OtherResult = res.result

\* C14 as claimed: the two modes agree on every input that carries a tag
\* and that exactly one candidate accepts
C14_ModesAgreeWhenOneAccepts ==
    (ModeCall /\ TagIn(call.d, "type") # NoTag /\ Cardinality(Acceptors) = 1)
        => SameOutcome(res.result, OtherResult)
---------------------------------------------------------------------------
(* Properties of the life of a record type's routines.                     *)

\* a step that is a call of from_dict or to_dict
IsCallStep == call' # call \/ res' # res

----------------------------------------------------------------------------
(* Properties of the import bookkeeping.                                   *)

\* the positions of the lines of a kind that mention arg
LinesOf(kind, arg) ==
    {i \in DOMAIN builder.lines :
        builder.lines[i].kind = kind /\ builder.lines[i].arg = arg}

\* the else: line at i directly follows the import block of its own call
FollowsImportBlock(i) ==
    /\ i > 2
    /\ builder.lines[i - 1] =
           Line(builder.lines[i].indent + 1, "import", builder.lines[i].arg)
    /\ builder.lines[i - 2] =
           Line(builder.lines[i].indent, "if", builder.lines[i].arg)

\* the builder has been reset
HasBeenReset == pc = "reset"

\* the emitted lines import each module at most once and no module of the
\* initial set, declare each root global at most once, and hold no else:
\* apart from an import block
ImportLinesWellFormed ==
    /\ \A module \in Modules :
           /\ Cardinality(LinesOf("import", module)) <= 1
           /\ module \in INITIAL_MODULES => LinesOf("import", module) = {}
           /\ Cardinality(LinesOf("global", <<module[1]>>)) <= 1
    /\ \A i \in DOMAIN builder.lines :
           builder.lines[i].kind = "else" => FollowsImportBlock(i)

\* the step is a call of ensure_module_imported for a registered module
IsRepeatedCall ==
    /\ call'.op = "ensure_module_imported"
    /\ call'.d \in builder.modules

(* C20: after a reset and any sequence of ensure_module_imported calls the *)
(* emitted lines hold at most one import per module, none for a module of  *)
(* the initial set, at most one global declaration per root module, and    *)
(* every else: directly follows the import block of the same call; a       *)
(* repeated call for a registered module leaves the builder (modules,      *)
(* globals, lines) unchanged.                                              *)
C20_ImportBookkeepingIdempotent ==
    /\ [](HasBeenReset => ImportLinesWellFormed)
    /\ [][HasBeenReset /\ IsRepeatedCall => builder' = builder]_vars

\* after a reset two modules of one root and a module under a root of the
\* initial set are registered among other lines, the last call being for a
\* registered module
C20_Witness ==
    /\ HasBeenReset
    /\ call = MethodCall("ensure_module_imported", <<"entities", "sub">>)
    /\ {<<"entities">>, <<"entities", "sub">>, <<"os", "path">>}
           \subseteq builder.modules
    /\ Cardinality(LinesOf("global", <<"entities">>)) = 1
    /\ LinesOf("import", <<"entities">>) # {}
    /\ LinesOf("import", <<"entities", "sub">>) # {}
    /\ LinesOf("import", <<"os">>) = {}
    /\ Statements(builder) # {}
---------------------------------------------------------------------------
(* Properties of the expressions built under the orjson dialect.           *)

\* the kinds the orjson dialect marks as native to the wire format
NativeBoxes == {"BoxDatetime", "BoxDate", "BoxTime", "BoxUUID"}

OrjsonCall ==
    /\ Done /\ call.op \in {"to_jsonb", "from_json"}
    /\ call.cls \in NativeBoxes

(* C16: under the orjson dialect the kinds it marks as native (datetime,   *)
(* date, time, UUID) are passed through unchanged in both directions: the  *)
(* packer leaves the field's value as it is, and the unpacker binds the    *)
(* value of the input as it is.                                            *)
C16_OrjsonNativeKindsAreIdentity ==
    OrjsonCall =>
        /\ call.op = "to_jsonb" =>
               /\ res.result.t = "dict"
               /\ res.result.v[VStr("v")] = call.d.v.f["v"]
        /\ call.op = "from_json" =>
               /\ res.result.t = "obj"
               /\ res.result.v.f["v"] = call.d.v[VStr("v")]

---------------------------------------------------------------------------
(* Properties of Optional[T] at the positions of a type.                   *)

\* single-field records with Optional[T] as the field type, and as the
\* element, value and key type of a container; T is int or str, whose
\* encoding of a present value is the value
OptionalBoxes ==
    {"BoxOptional", "BoxOptionalList", "BoxListOfOptional",
     "BoxDictOfOptional", "BoxDictByOptional"}

(* C17: the rule of Optional[T] holds at every position of a type, not     *)
(* only for a field: a null at the position of an Optional[T] encodes and  *)
(* decodes to null without error, and a present value is converted by the  *)
(* rule of T applied to the value at that position, a key expression to    *)
(* the key and a value expression to the value.                            *)
C17_OptionalAtEveryPosition ==
    (call.op \in {"to_dict", "round_trip"} /\ call.cls \in OptionalBoxes
        /\ pc \in {"encoded", "done"}) =>
        /\ ~IsRaise(res.result)
        /\ (pc = "encoded" \/ call.op = "to_dict") =>
               res.result = D1("v", call.d.v.f["v"])
        /\ (pc = "done" /\ call.op = "round_trip") => res.result = call.d

----------------------------------------------------------------------------
\* the call is on a record whose field goes through the strategy c
StrategyCall(c) == call.cls = c

\* the hooks types.py declares on SerializationStrategy
InterfaceHooks == {"serialize", "deserialize"}

\* the strategies that implement exactly the declared interface
InterfaceStrategies ==
    {c \in DOMAIN StrategyTypes : Hooks[StrategyTypes[c].n] = InterfaceHooks}

\* C18: a record whose field carries a serialization strategy implementing
\* exactly the hooks SerializationStrategy declares (serialize and
\* deserialize) is encoded to the strategy's serialize of the value and
\* decoded to the strategy's deserialize of the value, with no failure of
\* attribute lookup.
C18_DeclaredStrategyHooksAreCalled ==
    \A c \in InterfaceStrategies :
        StrategyCall(c) /\ pc \in {"encoded", "done"} =>
            /\ ~IsRaise(res.result)
            /\ (pc = "encoded" \/ call.op = "to_dict") =>
                   res.result = D1("v", StrategyHook("serialize", call.d.v.v))
            /\ (pc = "done" /\ call.op = "from_dict") =>
                   res.result =
                       Box(c, StrategyHook("deserialize", call.d.v[VStr("v")]))

----------------------------------------------------------------------------
\* the call is on a date, time or datetime record and has returned
StampCall(op) == pc = "done" /\ call.op = op /\ call.cls \in DatetimeClasses

\* the 'deserialize' values the datetime branch recognizes
KnownParsers == {"ciso8601", "pendulum", "function"}

\* the parser the claim names for the record c: the one of the metadata
\* entry when there is one, the ISO-8601 parse otherwise
NamedParser(c) ==
    LET metadata == MetadataOf(c, "v")
    IN CASE metadata = "ciso8601" -> "ciso8601.parse_datetime"
         [] metadata = "pendulum" -> "pendulum.parse"
         [] metadata = "function" -> "module.function"
         [] OTHER -> "fromisoformat"

\* what the named parser makes of v for a field of the kind
NamedParse(c, kind, v) ==
    IF NamedParser(c) = "fromisoformat" THEN FromIsoFormat(kind, v)
    ELSE ParseWith(NamedParser(c),
                   IF NamedParser(c) = "module.function" THEN ""
                   ELSE IF kind = "date" THEN ".date()"
                   ELSE IF kind = "time" THEN ".time()" ELSE "",
                   kind, v)

\* C19: a date, time or datetime field decodes by pass-through under
\* use_datetime, by the parser of its metadata 'deserialize' entry when it
\* has one, and by the ISO-8601 parse in every other case, a field
\* descriptor with no such entry included; only an unrecognized entry makes
\* compilation fail.
C19_DatetimeParserByMetadata ==
    LET c == call.cls
        kind == Classes[c].ann[1].type.k
        metadata == MetadataOf(c, "v")
    IN /\ StampCall("build") =>
              (IsCErr(res.result) <=>
                   metadata \notin KnownParsers \cup {"absent", "NoMetadata"})
       /\ StampCall("from_dict") =>
              LET v == call.d.v[VStr("v")]
              IN /\ call.opts.use_datetime => res.result = Box(c, v)
                 /\ (~call.opts.use_datetime
                        /\ ~IsRaise(NamedParse(c, kind, v)))
                        => res.result = Box(c, NamedParse(c, kind, v))
---------------------------------------------------------------------------
(* Properties of the defaults the builder collects.                        *)

\* the classes of the base chain of c that annotate the field, most
\* derived first
Declarers(c, fname) ==
    SelectSeq(Mro(c), LAMBDA k : InSeq(fname, NamesOf(Annotations(k))))

\* the record type whose declaration of the field is the last one
MostDerivedDeclarer(c, fname) == Head(Declarers(c, fname))

\* what a declaration gives the field: the value or the factory it names,
\* MISSING when it names neither
DeclaredDefault(c, fname) == OwnDefault(NsGet(c, fname))

\* the call decodes a record of a chain and has returned
ChainCall == Done /\ call.op = "from_dict" /\ call.cls \in DOMAIN ChainClasses

\* C21: the effective default of a field is the one declared by the most
\* derived record type that declares the field, a later declaration
\* overriding an earlier one, and from_dict treats the field as required
\* exactly when that declaration names no default value and no default
\* factory.
C21_MostDerivedDeclarationDecides ==
    ChainCall =>
        /\ Defaults(call.cls)["x"] =
               DeclaredDefault(MostDerivedDeclarer(call.cls, "x"), "x")
        /\ KeyAbsent(call.d, "x") =>
               (res.result = MissingField("x", TInt, call.cls)
                    <=> DeclaredDefault(MostDerivedDeclarer(call.cls, "x"),
                                        "x") = MISSING)
====
